---- MODULE Spec2Model ----
(***************************************************************************)
(* Model of nrt.py (Nile Readiness Test): main's phase sequence inside its *)
(* try/finally envelope, the host state the phases mutate, and             *)
(* record_state / restore_state.                                           *)
(*                                                                         *)
(* The host is the part of the machine the script reads and writes: the    *)
(* test interface (addresses, link), the dummy_* interfaces, the default   *)
(* routes, /etc/frr/daemons, /etc/frr/frr.conf, /etc/resolv.conf, the frr  *)
(* service, and one other (non-management) interface.                      *)
(*                                                                         *)
(* Every external command can return non-zero for reasons of the           *)
(* environment; an action draws that outcome with \E ok \in BOOLEAN.       *)
(***************************************************************************)
EXTENDS Integers, Sequences, FiniteSets, TLC

VARIABLES
    pc,            \* position of main
    host,          \* the host state
    state,         \* main's local `state`: the snapshot, NoState before it
    exc,           \* exception propagating out of the try block / out of main
    exitCode,      \* process exit status, -1 while running
    test_results,  \* main's local `test_results`
    defined,       \* 'test_results' in locals()
    attempt,       \* loop counter of the function main is in
    ping_ok,       \* run_tests' local ping_ok
    router_reachable, \* configure_ospf's local router_reachable
    trace,         \* history: the operations started so far, in order
    restoreCalls,  \* history: number of restore_state invocations
    finalCalls,    \* history: invocations of restore_state by the finally block
    rlast,         \* history: how the latest restore_state call went
    fatal,         \* history: the fatal condition the environment produced
    pkt_area,      \* environment: pkt[OSPF_Hdr].area of the hello on the wire
    area,          \* main's local `area`
    cmds,          \* the network commands of configure_ospf's vtysh script
    printed,       \* success_count, total_count, success_rate of the "Overall:" line
    srv,           \* relay probe: position of `srv` in dhcp_servers
    ppc,           \* relay probe: where the loop body is
    offer_received, \* run_tests' local, shared with the capture callbacks
    threads,       \* capture threads running: <<server position, 1 or 2>>
    probe_ops,     \* history: <<server position, what was done or seen>>
    config,        \* the configuration file: keys omitted or empty, test toggles
    netmask,       \* the netmask of the configuration, four octets
    prefix,        \* prefix length computed from netmask, -1 before
    interface_up,  \* main's local interface_up: "unset", "true" or "false"
    subnets,       \* the three subnets of the configuration: address octets, prefix length
    lo_cmds,       \* the ip addr add commands of the latest add_loopbacks
    ospf_script,   \* environment: the neighbor reports vtysh will give, <<>> for any
    ifaces,        \* the interface names: test, management, those ip link lists, the verification script
    if_cmds,       \* history: targets of configure_interface's link down, whether it deleted the management route
    lo_steps,      \* history: the steps of the latest add_loopbacks with their results
    addr_script,   \* input: the results of the ip addr add commands, <<>> when not fixed
    faults         \* history: command failures and faults the environment produced

vars == <<addr_script, lo_steps, if_cmds, ifaces, ospf_script, lo_cmds, subnets, interface_up, prefix, netmask, config, pc, host, state, exc, exitCode, test_results, defined, attempt,
          ping_ok, trace, restoreCalls, finalCalls, router_reachable, rlast, fatal, faults,
          pkt_area, area, cmds, printed,
          srv, ppc, offer_received, threads, probe_ops>>

(***************************************************************************)
(* Bounds of the model.                                                    *)
(***************************************************************************)
MaxAddrs == 1          \* addresses the test interface may carry before the run
MaxCustomDns == 1      \* custom DNS servers of the configuration
MaxFaults == 1         \* command failures and faults the environment produces in a run
MaxOutcomes == 3       \* length of the outcome sequences handed to print_test_summary
MaxServers == 2        \* DHCP servers of the configuration
MaxMissing == 1        \* keys the configuration file omits

(***************************************************************************)
(* Values.                                                                 *)
(***************************************************************************)
AddrNames == <<"orig-addr-1", "orig-addr-2", "orig-addr-3", "orig-addr-4">>
OrigAddrs == {AddrNames[i] : i \in 1..MaxAddrs}
TestAddr == "ip_addr/prefix"        \* the address of the configuration
Placeholder == "0.0.0.0/0"
Inet6Addr == "fe80::1/64"           \* an address `ip addr show` lists as inet6
Dummies == {"mgmt1", "mgmt2", "client"}
NoState == [none |-> TRUE]

\* pkt[OSPF_Hdr].area is an IPField: scapy hands it back in dotted form
AreaValues == {"0.0.0.0", "0.0.0.1", "10.0.0.5"}
NoArea == "unbound"                 \* `area` before main assigns it

AreaUnchanged == UNCHANGED <<pkt_area, area, cmds>>

\* the relay probe is not running
ProbeIdle ==
    /\ srv = 1
    /\ ppc = "precheck"
    /\ offer_received = FALSE
    /\ threads = {}
    /\ probe_ops = <<>>

ProbeUnchanged == UNCHANGED <<srv, ppc, offer_received, threads, probe_ops>>


\* an entry of test_results: the label (its fixed text and the target it
\* names, "" when it names none) and the result
Outcome(text, target, passed) == <<text, target, passed>>

(***************************************************************************)
(* Text of /etc/frr/daemons, by what matters to the script: the ospfd=     *)
(* line. configure_ospf rewrites every line starting with "ospfd=" to      *)
(* "ospfd=yes" and copies the other lines.                                 *)
(***************************************************************************)
DaemonsTexts == {"ospfd=no", "ospfd=yes"}
EnableOspfd(text) == IF text \in DaemonsTexts THEN "ospfd=yes" ELSE text

(***************************************************************************)
(* Text of /etc/resolv.conf: the original text, or the nameserver lines    *)
(* write_resolv wrote for a list of servers.                               *)
(***************************************************************************)
ResolvTexts == {"orig", "default", "custom", "prompted"}

(***************************************************************************)
(* Default routes, by owner: the management interface's default route and  *)
(* a default route via the configured gateway.                             *)
(***************************************************************************)
Routes == {"mgmt", "gw"}

HostStates ==
    [dummies : SUBSET Dummies,
     addrs : SUBSET (OrigAddrs \cup {Inet6Addr, TestAddr, Placeholder}),
     up : BOOLEAN,
     routes : SUBSET Routes,
     daemons : DaemonsTexts,
     resolv : ResolvTexts,
     frrconf : BOOLEAN,
     frrRunning : BOOLEAN,
     frrEnabled : BOOLEAN,
     otherUp : BOOLEAN]

(***************************************************************************)
(* record_state: four reads of the host; the host is left as it was.       *)
(***************************************************************************)
\* a record_state that resets the interface it reads
RecordHostFlushing(h) == [h EXCEPT !.addrs = {}]

RecordHost(h) == h

\* state['addrs']: the second word of the lines of `ip addr show dev iface`
\* that contain 'inet ' (inet6 lines do not)
InetAddrs(addrs) == addrs \ {Inet6Addr}

Snapshot(h) ==
    [addrs |-> InetAddrs(h.addrs),
     routes |-> h.routes,
     daemons |-> h.daemons,
     resolv |-> h.resolv,
     frr_enabled |-> h.frrEnabled]

(***************************************************************************)
(* Initial state: the process has parsed its arguments and passed the      *)
(* pre-flight checks; main is about to call get_user_input. The test       *)
(* interface carries any set of its original addresses; dummy interfaces   *)
(* may be left over from an aborted run; frr may or may not be enabled.    *)
(***************************************************************************)
InitHosts ==
    {h \in HostStates :
        /\ h.addrs \subseteq OrigAddrs \cup {Inet6Addr}
        /\ h.routes \subseteq {"mgmt"}
        /\ h.dummies \in {{}, Dummies}
        /\ h.resolv = "orig"
        /\ h.frrRunning = h.frrEnabled
        /\ h.frrconf = h.frrEnabled
        /\ h.daemons = (IF h.frrEnabled THEN "ospfd=yes" ELSE "ospfd=no")}

(***************************************************************************)
(* prefix = ipaddress.IPv4Network(f'0.0.0.0/{netmask}').prefixlen. The     *)
(* dotted netmask is read as a 32-bit number, most significant octet       *)
(* first: the prefix length is 32 minus the number of trailing zero bits,  *)
(* provided all bits above them are ones; failing that the same is tried   *)
(* on the inverted number (a host mask); failing that the constructor      *)
(* raises NetmaskValueError, here -1.                                      *)
(***************************************************************************)
OctetBits(o) == [i \in 1..8 |-> (o \div (2 ^ (8 - i))) % 2]

Bits(mask) ==
    OctetBits(mask[1]) \o OctetBits(mask[2]) \o OctetBits(mask[3]) \o OctetBits(mask[4])

TrailingZeroes(bits) ==
    IF \A i \in 1..Len(bits) : bits[i] = 0 THEN Len(bits)
    ELSE Len(bits) - (CHOOSE i \in 1..Len(bits) :
                         /\ bits[i] = 1
                         /\ \A j \in (i + 1)..Len(bits) : bits[j] = 0)

PrefixFromBits(bits) ==
    LET prefixlen == Len(bits) - TrailingZeroes(bits)
    IN  IF \A i \in 1..prefixlen : bits[i] = 1 THEN prefixlen ELSE -1

Invert(bits) == [i \in 1..Len(bits) |-> 1 - bits[i]]

\* a prefix length of eight bits per octet 255
NetmaskPrefixByOctet(mask) ==
    8 * Cardinality({i \in 1..4 : mask[i] = 255})

NetmaskPrefix(mask) ==
    LET prefixlen == PrefixFromBits(Bits(mask))
    IN  IF prefixlen # -1 THEN prefixlen ELSE PrefixFromBits(Invert(Bits(mask)))

\* the netmask of the full run
ConfigNetmask == <<255, 255, 255, 0>>

\* netmasks a configuration can carry: every prefix length as a netmask and
\* as a host mask, and masks with holes
MaskOctet(n, i) ==
    IF n >= 8 * i THEN 255
    ELSE IF n <= 8 * (i - 1) THEN 0
    ELSE 256 - 2 ^ (8 * i - n)

Netmasks ==
    {[i \in 1..4 |-> MaskOctet(n, i)] : n \in 0..32}
    \cup {[i \in 1..4 |-> 255 - MaskOctet(n, i)] : n \in 0..32}
    \cup {<<255, 0, 255, 0>>, <<255, 255, 255, 127>>, <<1, 0, 0, 0>>,
          <<255, 255, 0, 255>>, <<0, 255, 0, 0>>, <<255, 255, 254, 128>>}

\* the subnets of the full run
ConfigSubnets ==
    [mgmt1 |-> [addr |-> <<10, 1, 1, 0>>, len |-> 24],
     mgmt2 |-> [addr |-> <<10, 1, 2, 0>>, len |-> 24],
     client |-> [addr |-> <<10, 1, 3, 128>>, len |-> 25]]

\* subnets a configuration can carry: networks of several lengths, one
\* with host bits set, one whose first address carries into the third
\* octet, the last address of all
SubnetInputs ==
    {[addr |-> <<10, 1, 2, 0>>, len |-> 24],
     [addr |-> <<10, 1, 2, 128>>, len |-> 25],
     [addr |-> <<10, 1, 0, 0>>, len |-> 16],
     [addr |-> <<0, 0, 0, 0>>, len |-> 0],
     [addr |-> <<10, 1, 2, 5>>, len |-> 24],
     [addr |-> <<10, 1, 2, 255>>, len |-> 32],
     [addr |-> <<255, 255, 255, 255>>, len |-> 32]}

\* the interfaces of the full run; up0, when it is fixed, is the set of
\* interfaces that are up when the run starts
ConfigIfaces ==
    [iface |-> "eth-test", mgmt |-> "end0",
     base |-> {"lo", "end0", "eth-test", "eth-other"}, still_up |-> <<>>,
     up0 |-> {"not fixed"}]

\* the interfaces the host has up, of those a run may bring down
UpAtStart(h) ==
    (IF h.up THEN {"eth-test"} ELSE {}) \cup (IF h.otherUp THEN {"eth-other"} ELSE {})

\* interface settings a run can meet: the management interface is its own,
\* the test interface, or not on the machine; other interfaces exist or
\* not; the verification passes see a set of interfaces up for k passes
IfaceInputs ==
    {[iface |-> "eth-test", mgmt |-> m, base |-> {"lo", "eth-test"} \cup b,
      still_up |-> [i \in 1..3 |-> IF i <= k THEN u ELSE {}],
      up0 |-> {"not fixed"}] :
        m \in {"end0", "eth-test", "absent0"},
        b \in SUBSET {"end0", "eth-other"},
        k \in 1..3,
        u \in {{"eth-other"}, {"eth-test"}, {"lo", "end0", "dummy_mgmt1"},
               {"lo", "end0", "eth-test", "eth-other", "dummy_mgmt1"}}}

NoIfCmds == [down |-> {}, route_del |-> FALSE]

ConfigKeys ==
    {"test_interface", "ip_address", "netmask", "gateway", "mgmt_interface",
     "nsb_subnet", "sensor_subnet", "client_subnet", "dhcp_servers",
     "radius_servers", "radius_secret", "radius_username", "radius_password"}

\* configuration files that omit up to k keys
Configs(k) ==
    {[missing |-> m, run_dhcp |-> d, run_radius |-> r] :
        m \in {x \in SUBSET ConfigKeys : Cardinality(x) <= k},
        d \in BOOLEAN, r \in BOOLEAN}

CompleteConfig == [missing |-> {}, run_dhcp |-> TRUE, run_radius |-> TRUE]

\* the configurations of the full run: a complete one, one without ip_address
MainConfigs == {CompleteConfig, [CompleteConfig EXCEPT !.missing = {"ip_address"}]}

InitCommon ==
    /\ state = NoState
    /\ exc = "none"
    /\ exitCode = -1
    /\ test_results = <<>>
    /\ defined = FALSE
    /\ attempt = 0
    /\ ping_ok = FALSE
    /\ trace = <<>>
    /\ restoreCalls = 0
    /\ finalCalls = 0
    /\ router_reachable = FALSE
    /\ rlast = "none"
    /\ fatal = "none"
    /\ faults = 0
    /\ addr_script = <<>>
    /\ lo_steps = <<>>
    /\ if_cmds = NoIfCmds
    /\ ospf_script = <<>>
    /\ lo_cmds = <<>>
    /\ subnets = ConfigSubnets
    /\ interface_up = "unset"
    /\ prefix = -1
    /\ area = NoArea
    /\ cmds = <<>>
    /\ printed = <<>>
    /\ ProbeIdle

Init ==
    /\ pc = "input"
    /\ pkt_area = "0.0.0.0"
    /\ host \in InitHosts
    /\ config \in MainConfigs
    /\ netmask = ConfigNetmask
    /\ ifaces = ConfigIfaces
    /\ InitCommon

(***************************************************************************)
(* get_user_input(args.config) with a configuration file. config.get(key)  *)
(* of an omitted key is the default of the call: None, the empty list for  *)
(* the server lists, a fixed interface name for test_interface and         *)
(* mgmt_interface. A falsy ip_address, netmask, gateway or subnet, a falsy *)
(* RADIUS field while RADIUS tests are enabled, or an empty DHCP server    *)
(* list while DHCP tests are enabled ends the process with sys.exit(1);    *)
(* nothing was touched.                                                    *)
(***************************************************************************)
ConfigGet(cfg, key, default) == IF key \in cfg.missing THEN default ELSE key

Falsy(value) == value \in {"None", "[]"}

\* ('ip_address', ip_addr), ..., ('client_subnet', client_subnet)
MissingFields(cfg) ==
    {key \in {"ip_address", "netmask", "gateway", "nsb_subnet",
              "sensor_subnet", "client_subnet"} :
        Falsy(ConfigGet(cfg, key, "None"))}

\* ('radius_servers', radius_servers), ..., ('radius_password', password)
MissingRadiusFields(cfg) ==
    {key \in {"radius_servers", "radius_secret", "radius_username",
              "radius_password"} :
        Falsy(ConfigGet(cfg, key, IF key = "radius_servers" THEN "[]" ELSE "None"))}

\* a validation that looks at the six plain fields only
ConfigExitsPlainOnly(cfg) == MissingFields(cfg) # {}

\* the three sys.exit(1) of the validation
ConfigExits(cfg) ==
    \/ MissingFields(cfg) # {}
    \/ cfg.run_radius /\ MissingRadiusFields(cfg) # {}
    \/ cfg.run_dhcp /\ Falsy(ConfigGet(cfg, "dhcp_servers", "[]"))

GetUserInput ==
    /\ UNCHANGED addr_script
    /\ UNCHANGED lo_steps
    /\ UNCHANGED if_cmds
    /\ UNCHANGED ifaces
    /\ UNCHANGED ospf_script
    /\ UNCHANGED lo_cmds
    /\ UNCHANGED subnets
    /\ UNCHANGED interface_up
    /\ UNCHANGED prefix
    /\ UNCHANGED netmask
    /\ UNCHANGED printed
    /\ ProbeUnchanged
    /\ AreaUnchanged
    /\ pc = "input"
    /\ IF ConfigExits(config)
       THEN /\ pc' = "done"
            /\ exitCode' = 1
       ELSE /\ pc' = "record"
            /\ UNCHANGED exitCode
    /\ UNCHANGED <<host, state, exc, test_results, defined, attempt, ping_ok,
                   trace, restoreCalls, finalCalls, router_reachable, rlast, fatal, faults>>
    /\ UNCHANGED config

(***************************************************************************)
(* state = record_state(test_iface), before the try block. Reading         *)
(* /etc/frr/daemons or /etc/resolv.conf may raise: the process then ends   *)
(* with a traceback (exit status 1) and without a snapshot.                *)
(***************************************************************************)
RecordState ==
    /\ UNCHANGED addr_script
    /\ UNCHANGED lo_steps
    /\ UNCHANGED if_cmds
    /\ UNCHANGED ifaces
    /\ UNCHANGED ospf_script
    /\ UNCHANGED lo_cmds
    /\ UNCHANGED subnets
    /\ UNCHANGED interface_up
    /\ UNCHANGED prefix
    /\ UNCHANGED netmask
    /\ UNCHANGED config
    /\ UNCHANGED printed
    /\ ProbeUnchanged
    /\ AreaUnchanged
    /\ pc = "record"
    /\ trace' = Append(trace, "record_state")
    /\ host' = RecordHost(host)
    /\ \E readable \in BOOLEAN :
        IF readable
        THEN /\ state' = Snapshot(host)
             /\ pc' = "reset1"
             /\ UNCHANGED exitCode
        ELSE /\ state' = state
             /\ pc' = "done"
             /\ exitCode' = 1
    /\ UNCHANGED <<exc, test_results, defined, attempt, ping_ok,
                   restoreCalls, finalCalls, router_reachable, rlast, fatal, faults>>

(***************************************************************************)
(* run_cmd(cmd, check=...): with check set, a non-zero return code raises  *)
(* CalledProcessError (proc.check_returncode()); without it the return     *)
(* code is handed back and the callers below ignore it.                    *)
(***************************************************************************)
Raises(check, ok) == check /\ ~ok

\* the environment makes a command fail (or not), within the run's budget
Env(failed) ==
    /\ failed => faults < MaxFaults
    /\ faults' = IF failed THEN faults + 1 ELSE faults

(***************************************************************************)
(* restore_state(iface, state). Each command is a step on the pair         *)
(* [host, raised]; a step after an exception does nothing. F is the set of *)
(* commands the environment makes fail in this call: a dummy_<name> for    *)
(* its delete, an address for its add, else the name of the command.       *)
(* The check= argument of the two call sites that decide whether a         *)
(* failure raises is a definition of its own.                              *)
(***************************************************************************)
RestoreCmds == {"flush", "tmp_add", "tmp_up", "up", "rflush", "daemons",
                "rmconf", "resolv", "stop", "disable"}

CheckDeleteStrict == TRUE  \* the delete with check=True
CheckDelete == FALSE       \* ip link delete dummy_<name>, check=False
CheckFlush == TRUE         \* ip addr flush dev iface, check=True

Step(r, h, raise) ==
    IF r.raised THEN r ELSE [host |-> h, raised |-> raise]

\* a loop over two of the three names
DeleteDummiesTwo(r, F) ==
    LET gone == (r.host.dummies \ F) \ {"client"}
    IN  Step(r, [r.host EXCEPT !.dummies = @ \ gone],
             Raises(CheckDelete, gone = Dummies))

\* for name in ('mgmt1','mgmt2','client'): ip link delete dummy_<name>;
\* the delete of an absent interface returns non-zero
DeleteDummies(r, F) ==
    LET gone == r.host.dummies \ F
    IN  Step(r, [r.host EXCEPT !.dummies = @ \ gone],
             Raises(CheckDelete, gone = Dummies))

\* a restore without the flush
FlushAddrsSkipped(r, F) ==
    Step(r, r.host, Raises(CheckFlush, "flush" \notin F))

\* ip addr flush dev iface
FlushAddrs(r, F) ==
    Step(r, IF "flush" \in F THEN r.host ELSE [r.host EXCEPT !.addrs = {}],
         Raises(CheckFlush, "flush" \notin F))

\* if not state['addrs']: ip addr add 0.0.0.0/0 dev iface; ip link set up
NeedsPlaceholder(st, h) == st.addrs = {}

AddPlaceholder(r, st, F) ==
    IF NeedsPlaceholder(st, r.host)
    THEN Step(r, [r.host EXCEPT
                    !.addrs = IF "tmp_add" \in F THEN @ ELSE @ \cup {Placeholder},
                    !.up = IF "tmp_up" \in F THEN @ ELSE TRUE],
              FALSE)
    ELSE r

\* for addr in state['addrs']: ip addr add addr dev iface (check=False)
AddAddrs(r, st, F) ==
    Step(r, [r.host EXCEPT !.addrs = @ \cup (st.addrs \ F)], FALSE)

\* ip link set dev iface up (check=False)
LinkUp(r, F) ==
    Step(r, [r.host EXCEPT !.up = IF "up" \in F THEN @ ELSE TRUE], FALSE)

\* ip route flush default (check=False); state['routes'] is not read
FlushRoutes(r, st, F) ==
    Step(r, [r.host EXCEPT !.routes = IF "rflush" \in F THEN @ ELSE {}], FALSE)

\* with open('/etc/frr/daemons','w') as f: f.write(state['daemons']);
\* an OSError of open or write is not caught
WriteDaemons(r, st, F) ==
    Step(r, [r.host EXCEPT !.daemons = IF "daemons" \in F THEN @ ELSE st.daemons],
         "daemons" \in F)

\* rm -f /etc/frr/frr.conf (check=False)
RemoveFrrConf(r, F) ==
    Step(r, [r.host EXCEPT !.frrconf = IF "rmconf" \in F THEN @ ELSE FALSE], FALSE)

\* a restore that leaves resolv.conf as the run wrote it
WriteResolvSkipped(r, st, F) ==
    Step(r, r.host, "resolv" \in F)

\* with open('/etc/resolv.conf','w') as f: f.write(state['resolv'])
WriteResolv(r, st, F) ==
    Step(r, [r.host EXCEPT !.resolv = IF "resolv" \in F THEN @ ELSE st.resolv],
         "resolv" \in F)

\* systemctl stop frr; systemctl disable frr (check=False)
StopFrr(r, F) ==
    Step(r, [r.host EXCEPT !.frrRunning = IF "stop" \in F THEN @ ELSE FALSE], FALSE)

DisableFrr(r, st, F) ==
    Step(r, [r.host EXCEPT !.frrEnabled = IF "disable" \in F THEN @ ELSE FALSE], FALSE)

\* the body of restore_state, in the order of its statements
Restore(h, st, F) ==
    LET r0  == [host |-> h, raised |-> FALSE]
        r1  == DeleteDummies(r0, F)
        r2  == FlushAddrs(r1, F)
        r3  == AddPlaceholder(r2, st, F)
        r4  == AddAddrs(r3, st, F)
        r5  == LinkUp(r4, F)
        r6  == FlushRoutes(r5, st, F)
        r7  == WriteDaemons(r6, st, F)
        r8  == RemoveFrrConf(r7, F)
        r9  == WriteResolv(r8, st, F)
        r10 == StopFrr(r9, F)
    IN  DisableFrr(r10, st, F)

\* the commands of this call that can fail
FailPoints(h, st) ==
    h.dummies \cup st.addrs
        \cup (IF NeedsPlaceholder(st, h) THEN RestoreCmds
              ELSE RestoreCmds \ {"tmp_add", "tmp_up"})

\* the subsets of S with at most k elements
RECURSIVE KSubsets(_, _)
KSubsets(S, k) ==
    IF k = 0 THEN {{}}
    ELSE LET P == KSubsets(S, k - 1)
         IN  P \cup {T \cup {x} : T \in P, x \in S}

\* a finally block that calls restore_state again when it raised
AfterRestoreRetry(p, raised) ==
    CASE p = "reset1" -> IF raised THEN "final" ELSE "cfg1"
      [] p = "reset2" -> IF raised THEN "final" ELSE "cfg2"
      [] p = "final"  -> IF raised THEN "final"
                         ELSE IF defined THEN "summary" ELSE "exit"
      [] p = "twice1" -> IF raised THEN "twiceDone" ELSE "twice2"
      [] OTHER        -> "twiceDone"

\* a main with a single configuration pass
AfterRestoreOnePass(p, raised) ==
    CASE p = "reset1" -> IF raised THEN "final" ELSE "cfg2"
      [] p = "reset2" -> IF raised THEN "final" ELSE "cfg2"
      [] p = "final"  -> IF raised \/ ~defined THEN "exit" ELSE "summary"
      [] p = "twice1" -> IF raised THEN "twiceDone" ELSE "twice2"
      [] OTHER        -> "twiceDone"

\* where main continues when restore_state returns or raises
AfterRestore(p, raised) ==
    CASE p = "reset1" -> IF raised THEN "final" ELSE "cfg1"
      [] p = "reset2" -> IF raised THEN "final" ELSE "cfg2"
      [] p = "final"  -> IF raised \/ ~defined THEN "exit" ELSE "summary"
      [] p = "twice1" -> IF raised THEN "twiceDone" ELSE "twice2"
      [] OTHER        -> "twiceDone"

RestoreState ==
    /\ UNCHANGED addr_script
    /\ UNCHANGED lo_steps
    /\ UNCHANGED if_cmds
    /\ UNCHANGED ifaces
    /\ UNCHANGED ospf_script
    /\ UNCHANGED lo_cmds
    /\ UNCHANGED subnets
    /\ UNCHANGED interface_up
    /\ UNCHANGED prefix
    /\ UNCHANGED netmask
    /\ UNCHANGED config
    /\ UNCHANGED printed
    /\ ProbeUnchanged
    /\ AreaUnchanged
    /\ pc \in {"reset1", "reset2", "final", "twice1", "twice2"}
    /\ \E F \in KSubsets(FailPoints(host, state), MaxFaults - faults) :
        LET r == Restore(host, state, F)
        IN  /\ host' = r.host
            /\ pc' = AfterRestore(pc, r.raised)
            /\ exc' = IF r.raised THEN "error" ELSE exc
            /\ rlast' = IF r.raised THEN "raised"
                       ELSE IF F # {} THEN "failed" ELSE "ok"
            /\ faults' = faults + Cardinality(F)
    /\ trace' = Append(trace, "restore_state")
    /\ restoreCalls' = restoreCalls + 1
    /\ finalCalls' = IF pc = "final" THEN finalCalls + 1 ELSE finalCalls
    /\ UNCHANGED <<state, exitCode, test_results, defined, attempt, ping_ok,
                   router_reachable, fatal>>

(***************************************************************************)
(* The phases of main's try block. A phase that raises (CalledProcessError *)
(* of a check=True command, OSError, SystemExit of sys.exit(1)) leaves the *)
(* try block for the finally block.                                        *)
(***************************************************************************)
MainUnchanged ==
    UNCHANGED <<state, exitCode, restoreCalls, finalCalls, rlast>>

NoFault == UNCHANGED faults

\* a try block without the finally clause
GotoNoFinally(next, raised) ==
    /\ pc' = IF raised = "none" THEN next ELSE "exit"
    /\ exc' = raised

\* the statement after a phase, or the finally block when the phase raised
Goto(next, raised) ==
    /\ pc' = IF raised = "none" THEN next ELSE "final"
    /\ exc' = raised

DummySeq == <<"mgmt1", "mgmt2", "client">>

(***************************************************************************)
(* configure_interface(test_iface, ip_addr, netmask, mgmt_interface).      *)
(* out is where the function ends: a check=True command that fails         *)
(* ("flush", "add", "up") or the verification loop ("verify"). An invalid  *)
(* netmask raises when the prefix is computed, before the flush.           *)
(***************************************************************************)
ConfigureOuts == {"flush", "add", "up", "verify"}

IfaceMaxRetries == 5

(***************************************************************************)
(* The first part of configure_interface. interfaces is what `ip link      *)
(* show` lists: the base interfaces and the dummy_* left over. The         *)
(* management interface's default route is deleted when the management     *)
(* interface is listed, is not the test interface and has one.             *)
(* interfaces_to_disable are the listed interfaces other than lo, the      *)
(* management interface and dummy_*; each gets a link down, and again in   *)
(* each of up to max_attempts verification passes in which it still shows  *)
(* "state UP"; script[i] are the interfaces that show it in pass i.        *)
(***************************************************************************)
DownMaxAttempts == 3

DummyIface(d) ==
    CASE d = "mgmt1" -> "dummy_mgmt1"
      [] d = "mgmt2" -> "dummy_mgmt2"
      [] OTHER       -> "dummy_client"

DummyIfaces == {DummyIface(d) : d \in Dummies}

Listed(h, ifs) == ifs.base \cup {DummyIface(d) : d \in h.dummies}

\* mgmt_interface in interfaces and mgmt_interface != iface
ChecksMgmtRoute(h, ifs) == ifs.mgmt \in Listed(h, ifs) /\ ifs.mgmt # ifs.iface

\* a list that spares lo only
InterfacesToDisableAll(h, ifs) == Listed(h, ifs) \ {"lo"}

InterfacesToDisable(h, ifs) ==
    {interface \in Listed(h, ifs) :
        interface # "lo" /\ interface # ifs.mgmt /\ interface \notin DummyIfaces}

\* the interfaces that get another link down in the verification passes
RECURSIVE VerifyDown(_, _, _)
VerifyDown(pass, to_disable, script) ==
    IF pass = DownMaxAttempts \/ to_disable \cap script[pass + 1] = {} THEN {}
    ELSE (to_disable \cap script[pass + 1]) \cup VerifyDown(pass + 1, to_disable, script)

\* what the verification passes see: the script fixed beforehand, or every
\* interface down / every interface up as the link downs took effect or not
DownScript(h, ifs, okDown) ==
    IF ifs.still_up # <<>> THEN ifs.still_up
    ELSE [i \in 1..DownMaxAttempts |-> IF okDown THEN {} ELSE Listed(h, ifs)]

\* the commands of this part, added to those of the earlier call
DisableCmds(c, h, ifs, okDown) ==
    [down |-> c.down \cup InterfacesToDisable(h, ifs)
                     \cup VerifyDown(0, InterfacesToDisable(h, ifs),
                                     DownScript(h, ifs, okDown)),
     route_del |-> c.route_del \/ (ChecksMgmtRoute(h, ifs) /\ "mgmt" \in h.routes)]

\* leftover dummy interfaces deleted, the management interface's default
\* route removed, the interfaces to disable set down
DisableInterfaces(h, okDel, okRoute, okDown) ==
    [h EXCEPT !.dummies = IF okDel THEN {} ELSE @,
              !.routes = IF okRoute /\ ChecksMgmtRoute(h, ifaces)
                         THEN @ \ {"mgmt"} ELSE @,
              !.otherUp = IF okDown /\ "eth-other" \in InterfacesToDisable(h, ifaces)
                          THEN FALSE ELSE @,
              !.up = IF okDown /\ ifaces.iface \in InterfacesToDisable(h, ifaces)
                     THEN FALSE ELSE @]

\* flush, add ip_addr/prefix, link up: the host when the command `out` fails,
\* or when all three succeeded
AssignAddress(h, out) ==
    CASE out = "flush" -> h
      [] out = "add"   -> [h EXCEPT !.addrs = {}]
      [] OTHER         -> [h EXCEPT !.addrs = {TestAddr}]

(***************************************************************************)
(* for attempt in range(max_retries): what `ip link show` and `ip addr     *)
(* show` report in each round is the environment's, script[round + 1];     *)
(* a round that sees "state UP" and the address sets interface_up and      *)
(* breaks; any other round re-issues link up (check=True) and/or flush and *)
(* add (check=True), sleeps, and goes on. raiseAt is the round whose       *)
(* re-issued command fails, 0 for none. After the last round nothing is    *)
(* read again: the link state at the return is after_up.                   *)
(***************************************************************************)
GoodRound == [up |-> TRUE, addr |-> TRUE]

\* k rounds that fail the same way, then rounds that pass
WorldScripts ==
    {[i \in 1..IfaceMaxRetries |-> IF i <= k THEN bad ELSE GoodRound] :
        k \in 0..IfaceMaxRetries,
        bad \in [up : BOOLEAN, addr : BOOLEAN] \ {GoodRound}}

\* the rounds before the first that passes
FailingRounds(script) ==
    Cardinality({i \in 1..IfaceMaxRetries : \A j \in 1..i : script[j] # GoodRound})

RECURSIVE VerifyRounds(_, _, _, _)
VerifyRounds(round, script, raiseAt, after_up) ==
    IF round = IfaceMaxRetries
    THEN [interface_up |-> FALSE, raised |-> FALSE, up |-> after_up, addr |-> TRUE]
    ELSE IF script[round + 1].up /\ script[round + 1].addr
    THEN [interface_up |-> TRUE, raised |-> FALSE, up |-> TRUE, addr |-> TRUE]
    ELSE IF raiseAt = round + 1
    THEN [interface_up |-> FALSE, raised |-> TRUE,
          up |-> script[round + 1].up, addr |-> script[round + 1].addr]
    ELSE VerifyRounds(round + 1, script, raiseAt, after_up)

\* the interface as the verification loop leaves it
VerifiedHost(h, r) ==
    [h EXCEPT !.addrs = IF r.addr THEN {TestAddr} ELSE {}, !.up = r.up]

ConfigureInterface ==
    /\ UNCHANGED addr_script
    /\ UNCHANGED lo_steps
    /\ UNCHANGED ifaces
    /\ UNCHANGED ospf_script
    /\ UNCHANGED lo_cmds
    /\ UNCHANGED subnets
    /\ UNCHANGED netmask
    /\ UNCHANGED config
    /\ UNCHANGED printed
    /\ ProbeUnchanged
    /\ AreaUnchanged
    /\ pc \in {"cfg1", "cfg2"}
    /\ trace' = Append(trace, "configure_interface")
    /\ LET p == NetmaskPrefix(netmask)
           next == IF pc = "cfg1" THEN "loop1" ELSE "loop2"
       IN  \E okDel \in BOOLEAN, okRoute \in BOOLEAN, okDown \in BOOLEAN :
             LET h == DisableInterfaces(host, okDel, okRoute, okDown)
             IN  IF p = -1
                 THEN /\ host' = h
                      /\ if_cmds' = DisableCmds(if_cmds, host, ifaces, okDown)
                      /\ Goto(next, "error")
                      /\ Env(~okDel \/ ~okRoute \/ ~okDown)
                      /\ UNCHANGED <<prefix, interface_up>>
                 ELSE /\ prefix' = p
                      /\ if_cmds' = DisableCmds(if_cmds, host, ifaces, okDown)
                      /\ \E out \in ConfigureOuts :
                           IF out # "verify"
                           THEN /\ host' = AssignAddress(h, out)
                                /\ Goto(next, "error")
                                /\ Env(TRUE)
                                /\ UNCHANGED interface_up
                           ELSE \E script \in WorldScripts :
                                \E raiseAt \in 0..FailingRounds(script),
                                   after_up \in {FALSE, FailingRounds(script)
                                                           = IfaceMaxRetries} :
                                  LET r == VerifyRounds(0, script, raiseAt, after_up)
                                  IN  /\ host' = VerifiedHost(AssignAddress(h, out), r)
                                      /\ Goto(next, IF r.raised THEN "error" ELSE "none")
                                      /\ Env(~okDel \/ ~okRoute \/ ~okDown \/ r.raised)
                                      /\ interface_up' =
                                            IF pc = "cfg1" \/ r.raised THEN interface_up
                                            ELSE IF r.interface_up THEN "true"
                                            ELSE "false"
    /\ MainUnchanged
    /\ UNCHANGED fatal
    /\ UNCHANGED <<test_results, defined, attempt, ping_ok, router_reachable>>

(***************************************************************************)
(* add_loopbacks(mgmt1, mgmt2, client_subnet). For each subnet in turn:    *)
(* net = ipaddress.IPv4Network(subnet), which raises ValueError when the   *)
(* address has bits set beyond the prefix length; addr =                   *)
(* net.network_address + 1, which raises AddressValueError past            *)
(* 255.255.255.255; then link add and addr add addr/prefix with            *)
(* check=False, link up with check=True. k interfaces are set up before    *)
(* the function ends (k = 3: it returns); `partial` says whether the       *)
(* interface whose link up failed exists.                                  *)
(***************************************************************************)
HasHostBits(subnet) ==
    LET b == Bits(subnet.addr)
    IN  \E i \in (subnet.len + 1)..32 : b[i] = 1

\* an address that sets the last octet to 1
AddressPlusOneLastOctet(a) == [a EXCEPT ![4] = 1]

\* net.network_address + 1 on the 32-bit value, <<>> when it does not fit
AddressPlusOne(a) ==
    IF a[4] < 255 THEN [a EXCEPT ![4] = @ + 1]
    ELSE IF a[3] < 255 THEN [a EXCEPT ![3] = @ + 1, ![4] = 0]
    ELSE IF a[2] < 255 THEN [a EXCEPT ![2] = @ + 1, ![3] = 0, ![4] = 0]
    ELSE IF a[1] < 255 THEN [a EXCEPT ![1] = @ + 1, ![2] = 0, ![3] = 0, ![4] = 0]
    ELSE <<>>

\* the subnet is one add_loopbacks gets past without an exception
SubnetUsable(subnet) ==
    ~HasHostBits(subnet) /\ AddressPlusOne(subnet.addr) # <<>>

\* ['ip','addr','add',f'{addr}/{prefix}','dev',iface]
LoopbackCmd(name, subnet) ==
    [iface |-> name, addr |-> AddressPlusOne(subnet.addr), prefix |-> subnet.len]

\* add_loopbacks hands check=True to run_cmd for this step
LoopbackCheckedAll(step) == TRUE

\* check= of the three run_cmd calls of one iteration
LoopbackChecked(step) == step = "up"

LoopbackSteps == <<"add", "addr", "up">>

\* the results the environment may give a step: a step on a device that is
\* not there (or an add of one that is) fails; any other failure is a fault
StepChoices(forced, left) ==
    IF forced THEN {FALSE} ELSE IF left > 0 THEN {TRUE, FALSE} ELSE {TRUE}

\* one run_cmd of an iteration on the run so far; a step after an exception
\* does nothing
LoopbackStep(run, nm, step, ok, cost) ==
    IF run.raised THEN run
    ELSE [steps |-> Append(run.steps, [iface |-> nm, step |-> step, ok |-> ok]),
          dummies |-> IF step = "add" /\ ok THEN run.dummies \cup {nm}
                      ELSE run.dummies,
          raised |-> Raises(LoopbackChecked(step), ok),
          used |-> run.used + cost]

\* the runs of the loop from iteration i on: `left` is the number of faults
\* the environment may still produce
\* the results of ip addr add: it fails on a device that is not there, else
\* it does what the script fixed beforehand says, and succeeds without one
AddrChoices(gone, i, script) ==
    IF gone THEN {FALSE} ELSE IF script = <<>> THEN {TRUE} ELSE {script[i]}

RECURSIVE LoopbackRuns(_, _, _, _, _)
LoopbackRuns(i, sn, run, left, script) ==
    IF run.raised \/ i > Len(DummySeq) THEN {run}
    ELSE IF ~SubnetUsable(sn[DummySeq[i]]) THEN {[run EXCEPT !.raised = TRUE]}
    ELSE LET nm == DummySeq[i]
             there == nm \in run.dummies
             Cost(forced, ok) == IF forced \/ ok THEN 0 ELSE 1
             AfterAdd == {LoopbackStep(run, nm, "add", ok, Cost(there, ok)) :
                              ok \in StepChoices(there, left)}
             AfterAddr ==
                 UNION {{LoopbackStep(r, nm, "addr", ok, 0) :
                             ok \in AddrChoices(nm \notin r.dummies, i, script)} :
                        r \in AfterAdd}
             AfterUp ==
                 UNION {LET gone == nm \notin r.dummies
                            l == left - (r.used - run.used)
                        IN  {LoopbackStep(r, nm, "up", ok, Cost(gone, ok)) :
                                 ok \in StepChoices(gone, l)} : r \in AfterAddr}
         IN  UNION {LoopbackRuns(i + 1, sn, r, left - (r.used - run.used),
                                 script) : r \in AfterUp}

\* the steps of a call in which every command succeeds
CleanLoopbackSteps ==
    [i \in 1..(Len(DummySeq) * Len(LoopbackSteps)) |->
        [iface |-> DummySeq[((i - 1) \div Len(LoopbackSteps)) + 1],
         step |-> LoopbackSteps[((i - 1) % Len(LoopbackSteps)) + 1],
         ok |-> TRUE]]

\* the ip addr add commands among the steps
AddrCmds(steps, sn) ==
    LET n == Cardinality({i \in 1..Len(steps) : steps[i].step = "addr"})
    IN  [i \in 1..n |-> LoopbackCmd(DummySeq[i], sn[DummySeq[i]])]

AddLoopbacks ==
    /\ UNCHANGED addr_script
    /\ UNCHANGED if_cmds
    /\ UNCHANGED ifaces
    /\ UNCHANGED ospf_script
    /\ UNCHANGED subnets
    /\ UNCHANGED interface_up
    /\ UNCHANGED prefix
    /\ UNCHANGED netmask
    /\ UNCHANGED config
    /\ UNCHANGED printed
    /\ ProbeUnchanged
    /\ AreaUnchanged
    /\ pc \in {"loop1", "loop2"}
    /\ trace' = Append(trace, "add_loopbacks")
    /\ \E r \in LoopbackRuns(1, subnets,
                              [steps |-> <<>>, dummies |-> host.dummies,
                               raised |-> FALSE, used |-> 0],
                              MaxFaults - faults, addr_script) :
        /\ host' = [host EXCEPT !.dummies = r.dummies]
        /\ lo_steps' = r.steps
        /\ lo_cmds' = AddrCmds(r.steps, subnets)
        /\ Goto(IF pc = "loop1" THEN "route1" ELSE "route2",
                IF r.raised THEN "error" ELSE "none")
        /\ faults' = faults + r.used
    /\ MainUnchanged
    /\ UNCHANGED fatal
    /\ UNCHANGED <<test_results, defined, attempt, ping_ok, router_reachable>>

(***************************************************************************)
(* configure_static_route(gateway, test_iface): ip route add default via   *)
(* gateway metric 200 (check=False), then for attempt in                   *)
(* range(max_retries): a round that reads "default via <gateway>" in the   *)
(* route table sets route_added and breaks; any other round brings the     *)
(* link up if it is not (check=True), deletes a default route, adds the    *)
(* route again (both check=False) and sleeps. k is the number of rounds    *)
(* that did not read the route, `raised` says that the link up of the k-th *)
(* failed, `del` are the default routes the rounds deleted, `present` says *)
(* whether the route via the gateway is in the table when the function     *)
(* ends: after the last round nothing is read again. Before the second     *)
(* call main computes its own prefix; after it main creates test_results   *)
(* with the route outcome.                                                 *)
(***************************************************************************)
StaticRouteLabel == "Static Default Route Configuration"

RouteMaxRetries == 5

RouteHost(h, del, present) ==
    [h EXCEPT !.routes = IF present THEN (@ \ del) \cup {"gw"} ELSE (@ \ del) \ {"gw"}]

\* a loop whose last round counts as a success
RouteAddedLenient(k, raised) == ~raised

\* route_added when the function returns: a round read the route
RouteAdded(k, raised) == ~raised /\ k < RouteMaxRetries

\* a main that records the route outcome after each call
RecordsRouteEveryPass(p) == TRUE

\* test_results = []; test_results.append(("Static Default Route
\* Configuration", route_added)) follows the second call only
RecordsRoute(p) == p = "route2"

ConfigureStaticRoute ==
    /\ UNCHANGED addr_script
    /\ UNCHANGED lo_steps
    /\ UNCHANGED if_cmds
    /\ UNCHANGED ifaces
    /\ UNCHANGED ospf_script
    /\ UNCHANGED lo_cmds
    /\ UNCHANGED subnets
    /\ UNCHANGED interface_up
    /\ UNCHANGED netmask
    /\ UNCHANGED config
    /\ UNCHANGED printed
    /\ ProbeUnchanged
    /\ AreaUnchanged
    /\ pc \in {"route1", "route2"}
    /\ trace' = Append(trace, "configure_static_route")
    /\ prefix' = IF pc = "route2" THEN NetmaskPrefix(netmask) ELSE prefix
    /\ \E k \in 0..RouteMaxRetries, raised \in BOOLEAN, del \in SUBSET host.routes,
          present \in BOOLEAN :
        /\ raised => k >= 1 /\ ~present
        /\ Cardinality(del) <= (IF raised THEN k - 1 ELSE k)
        /\ (~raised /\ k < RouteMaxRetries) => present
        /\ host' = RouteHost(host, del, present)
        /\ Goto(IF pc = "route1" THEN "reset2" ELSE "hello",
                IF raised THEN "error" ELSE "none")
        /\ Env(raised)
        /\ IF RecordsRoute(pc) /\ ~raised
           THEN /\ test_results' = <<Outcome(StaticRouteLabel, "", RouteAdded(k, raised))>>
                /\ defined' = TRUE
           ELSE UNCHANGED <<test_results, defined>>
    /\ MainUnchanged
    /\ UNCHANGED fatal
    /\ UNCHANGED <<attempt, ping_ok, router_reachable>>

(***************************************************************************)
(* sniff_ospf_hello(test_iface): one packet of IP protocol 89 within the   *)
(* timeout, else sys.exit(1). "fault": the captured packet has no hello    *)
(* layer, or the capture itself raises.                                    *)
(***************************************************************************)
\* a sniff_ospf_hello that casts the area like the two intervals: int()
\* of a dotted string raises ValueError
HelloAreaCast(a) == "ValueError"

\* area = pkt[OSPF_Hdr].area; return src, area, int(hi), int(di)
HelloArea(a) == a

\* a capture whose timeout is not checked
HelloRaisesNever(out) ==
    IF out = "fault" THEN "error" ELSE "none"

\* if not pkts: sys.exit(1); a packet without the layers read raises
HelloRaises(out) ==
    CASE out = "pkt" -> "none"
      [] out = "timeout" -> "SystemExit"
      [] OTHER -> "error"

SniffOspfHello ==
    /\ UNCHANGED addr_script
    /\ UNCHANGED lo_steps
    /\ UNCHANGED if_cmds
    /\ UNCHANGED ifaces
    /\ UNCHANGED ospf_script
    /\ UNCHANGED lo_cmds
    /\ UNCHANGED subnets
    /\ UNCHANGED interface_up
    /\ UNCHANGED prefix
    /\ UNCHANGED netmask
    /\ UNCHANGED config
    /\ UNCHANGED printed
    /\ ProbeUnchanged
    /\ pc = "hello"
    /\ trace' = Append(trace, "sniff_ospf_hello")
    /\ \E out \in {"pkt", "timeout", "fault"} :
        /\ Goto("ospf", HelloRaises(out))
        /\ fatal' = IF out = "timeout" THEN "hello" ELSE fatal
        /\ area' = IF out = "pkt" THEN HelloArea(pkt_area) ELSE area
        /\ Env(out = "fault")
    /\ UNCHANGED <<pkt_area, cmds>>
    /\ MainUnchanged
    /\ UNCHANGED <<host, test_results, defined, attempt, ping_ok, router_reachable>>

(***************************************************************************)
(* configure_ospf, up to the reachability loop: rewrite /etc/frr/daemons,  *)
(* systemctl restart frr (check=True), the vtysh script ending in write    *)
(* memory (check=True), then the link/address re-verification. out names   *)
(* the step that raises, or "ok".                                          *)
(***************************************************************************)
OspfOuts == {"daemons", "restart", "vtysh", "heal", "ok"}

OspfHost(h, out) ==
    CASE out = "daemons" -> h
      [] out = "restart" -> [h EXCEPT !.daemons = EnableOspfd(@)]
      [] out = "vtysh"   -> [h EXCEPT !.daemons = EnableOspfd(@), !.frrRunning = TRUE]
      [] out = "heal"    -> [h EXCEPT !.daemons = EnableOspfd(@), !.frrRunning = TRUE,
                                      !.frrconf = TRUE]
      [] OTHER           -> [h EXCEPT !.daemons = EnableOspfd(@), !.frrRunning = TRUE,
                                      !.frrconf = TRUE, !.addrs = @ \cup {TestAddr}]

\* f'network {net} area {area}' for the test interface's network and the
\* three subnets
OspfNetworks == <<"ip/prefix", "n1", "n2", "n3">>

NetworkCmds(a) == [i \in 1..Len(OspfNetworks) |-> <<"network", OspfNetworks[i], "area", a>>]

ConfigureOspf ==
    /\ UNCHANGED addr_script
    /\ UNCHANGED lo_steps
    /\ UNCHANGED if_cmds
    /\ UNCHANGED ifaces
    /\ UNCHANGED ospf_script
    /\ UNCHANGED lo_cmds
    /\ UNCHANGED subnets
    /\ UNCHANGED interface_up
    /\ UNCHANGED prefix
    /\ UNCHANGED netmask
    /\ UNCHANGED config
    /\ UNCHANGED printed
    /\ ProbeUnchanged
    /\ pc = "ospf"
    /\ trace' = Append(trace, "configure_ospf")
    /\ \E out \in OspfOuts :
        /\ host' = OspfHost(host, out)
        /\ cmds' = IF out \in {"daemons", "restart"} THEN cmds ELSE NetworkCmds(area)
        /\ Goto("ospfping", IF out = "ok" THEN "none" ELSE "error")
        /\ Env(out # "ok")
    /\ attempt' = 0
    /\ router_reachable' = FALSE
    /\ UNCHANGED <<pkt_area, area>>
    /\ MainUnchanged
    /\ UNCHANGED fatal
    /\ UNCHANGED <<test_results, defined, ping_ok>>

(***************************************************************************)
(* configure_ospf's reachability loop: for attempt in range(max_retries):  *)
(* ping -c 4 up; break on success; after the loop sys.exit(1) when the     *)
(* router was never reachable.                                             *)
(***************************************************************************)
PeerMaxRetries == 3

\* a loop without the break
PeerLoopNoBreak(att, ok) ==
    IF att + 1 < PeerMaxRetries THEN "ospfping"
    ELSE IF ok THEN "adj" ELSE "final"

PeerLoopAfter(att, ok) ==
    IF ok THEN "adj"
    ELSE IF att + 1 < PeerMaxRetries THEN "ospfping" ELSE "final"

PingPeer ==
    /\ UNCHANGED addr_script
    /\ UNCHANGED lo_steps
    /\ UNCHANGED if_cmds
    /\ UNCHANGED ifaces
    /\ UNCHANGED ospf_script
    /\ UNCHANGED lo_cmds
    /\ UNCHANGED subnets
    /\ UNCHANGED interface_up
    /\ UNCHANGED prefix
    /\ UNCHANGED netmask
    /\ UNCHANGED config
    /\ UNCHANGED printed
    /\ ProbeUnchanged
    /\ AreaUnchanged
    /\ pc = "ospfping"
    /\ attempt < PeerMaxRetries
    /\ \E ok \in BOOLEAN :
        /\ router_reachable' = ok
        /\ pc' = PeerLoopAfter(attempt, ok)
        /\ exc' = IF pc' = "final" THEN "SystemExit" ELSE exc
        /\ attempt' = IF pc' = "ospfping" THEN attempt + 1 ELSE 0
        /\ fatal' = IF ~ok /\ attempt + 1 >= PeerMaxRetries THEN "peer" ELSE fatal
    /\ MainUnchanged
    /\ NoFault
    /\ UNCHANGED <<host, test_results, defined, ping_ok, trace>>

(***************************************************************************)
(* show_ospf_status() and main's append of its result. for _ in range(30): *)
(* out = vtysh -c 'show ip ospf neighbor'; a report with 'Full/DR' in a    *)
(* line after the first sets success and breaks, any other is followed by  *)
(* a sleep. A report is the sequence of its lines; script[i] is what the   *)
(* i-th query would return. attempt counts the queries made.               *)
(***************************************************************************)
AdjMaxPolls == 30

\* 'Full/DR' in l
HasFullDR(l) == l \in {"Full/DR", "Full/DROther"}

\* any('Full/DR' in l for l in out.splitlines()[1:])
ReportMatches(out) == \E i \in 2..Len(out) : HasFullDR(out[i])

\* n reports without a match, then reports with one
PollScripts ==
    {[i \in 1..(AdjMaxPolls + 1) |-> IF i <= n THEN bad ELSE good] :
        n \in 0..(AdjMaxPolls + 1),
        bad \in {<<"header">>, <<"header", "Init/DROther">>},
        good \in {<<"header", "Full/DR">>, <<"header", "ExStart/DR", "Full/DROther">>}}

\* the scripts the environment may play: the one fixed beforehand, or one
\* that matches at once and one that never does
ScriptChoices(fixed) ==
    IF fixed # <<>> THEN {fixed}
    ELSE {[i \in 1..(AdjMaxPolls + 1) |-> <<"header", "Full/DR">>],
          [i \in 1..(AdjMaxPolls + 1) |-> <<"header">>]}

\* a loop that gives up after its first query
PollNeighborsOnce(i, script) ==
    [success |-> ReportMatches(script[1]), polls |-> 1]

RECURSIVE PollNeighbors(_, _)
PollNeighbors(i, script) ==
    IF i = AdjMaxPolls THEN [success |-> FALSE, polls |-> i]
    ELSE IF ReportMatches(script[i + 1]) THEN [success |-> TRUE, polls |-> i + 1]
    ELSE PollNeighbors(i + 1, script)

AdjacencyLabel == "OSPF Adjacency Test"

ShowOspfStatus ==
    /\ UNCHANGED addr_script
    /\ UNCHANGED lo_steps
    /\ UNCHANGED if_cmds
    /\ UNCHANGED ifaces
    /\ UNCHANGED ospf_script
    /\ UNCHANGED lo_cmds
    /\ UNCHANGED subnets
    /\ UNCHANGED interface_up
    /\ UNCHANGED prefix
    /\ UNCHANGED netmask
    /\ UNCHANGED config
    /\ UNCHANGED printed
    /\ ProbeUnchanged
    /\ AreaUnchanged
    /\ pc = "adj"
    /\ trace' = Append(trace, "show_ospf_status")
    /\ \E script \in ScriptChoices(ospf_script) :
        LET r == PollNeighbors(0, script)
        IN  /\ attempt' = r.polls
            /\ test_results' = Append(test_results,
                                      Outcome(AdjacencyLabel, "", r.success))
    /\ Goto("tests", "none")
    /\ MainUnchanged
    /\ UNCHANGED fatal
    /\ NoFault
    /\ UNCHANGED <<host, defined, ping_ok, router_reachable>>

(***************************************************************************)
(* run_tests, first part: write_resolv(['8.8.8.8','8.8.4.4']); the initial *)
(* pings of the default and the custom DNS servers, each retried once when *)
(* it fails; the initial dig tests; the choice of the DNS servers to use   *)
(* and the second write_resolv; then sys.exit(1) unless a ping succeeded.  *)
(***************************************************************************)
DefaultDns == <<"8.8.8.8", "8.8.4.4">>
CustomNames == <<"custom-dns-1", "custom-dns-2", "custom-dns-3">>
CustomDns(n) == SubSeq(CustomNames, 1, n)

\* r = ping -c 2; if it fails, r = ping -c 3; result = (r.returncode == 0)
PingWithRetry(first, second) == IF first THEN TRUE ELSE second

RECURSIVE PingOutcomes(_, _, _)
PingOutcomes(text, targets, result) ==
    IF targets = <<>> THEN <<>>
    ELSE <<Outcome(text, Head(targets), result[Head(targets)])>>
         \o PingOutcomes(text, Tail(targets), result)

Range(seq) == {seq[i] : i \in 1..Len(seq)}

\* ping_ok |= result over the default servers, then over the custom ones
AnyPing(targets, result) == \E t \in Range(targets) : result[t]

\* a run_tests without the `if not ping_ok: sys.exit(1)`
InitialPingsIgnored(ok) == FALSE

\* if not ping_ok: sys.exit(1)
InitialPingsFatal(ok) == ~ok

\* the ping results drawn: no target answers, only the last one does, or
\* all do
PingInputs(targets) ==
    {f \in [targets -> BOOLEAN] :
        \/ \A t \in targets : f[t] = f["8.8.8.8"]
        \/ {t \in targets : ~f[t]} = {"8.8.8.8", "8.8.4.4"} \cap targets}

\* successful_custom_dns is empty, or custom_dns_servers is: both else
\* branches call prompt_nonempty
PromptsForDns(n, digOk) == ~(n > 0 /\ digOk)

RunTestsInitial ==
    /\ UNCHANGED addr_script
    /\ UNCHANGED lo_steps
    /\ UNCHANGED if_cmds
    /\ UNCHANGED ifaces
    /\ UNCHANGED ospf_script
    /\ UNCHANGED lo_cmds
    /\ UNCHANGED subnets
    /\ UNCHANGED interface_up
    /\ UNCHANGED prefix
    /\ UNCHANGED netmask
    /\ UNCHANGED config
    /\ UNCHANGED printed
    /\ ProbeUnchanged
    /\ AreaUnchanged
    /\ pc = "tests"
    /\ trace' = Append(trace, "run_tests")
    /\ \E n \in {0, MaxCustomDns}, digOk \in BOOLEAN :
       \E first \in PingInputs(Range(DefaultDns \o CustomDns(n))),
          second \in PingInputs(Range(DefaultDns \o CustomDns(n))) :
         LET result == [t \in Range(DefaultDns \o CustomDns(n)) |->
                            PingWithRetry(first[t], second[t])]
             ok == AnyPing(DefaultDns \o CustomDns(n), result)
         IN  /\ \A t \in DOMAIN first : first[t] => second[t]
             /\ test_results' = test_results
                    \o PingOutcomes("Initial Ping", DefaultDns, result)
                    \o PingOutcomes("Initial Ping Custom DNS", CustomDns(n), result)
                    \o PingOutcomes("Initial DNS", DefaultDns,
                                    [t \in Range(DefaultDns) |-> digOk])
                    \o PingOutcomes("Custom DNS", CustomDns(n),
                                    [t \in Range(CustomDns(n)) |-> digOk])
             /\ host' = [host EXCEPT !.resolv =
                            IF PromptsForDns(n, digOk) THEN "default" ELSE "custom"]
             /\ ping_ok' = ok
             /\ IF PromptsForDns(n, digOk)
                THEN Goto("prompt", "none")
                ELSE Goto("suite", IF InitialPingsFatal(ok) THEN "SystemExit"
                                   ELSE "none")
             /\ fatal' = IF \A t \in DOMAIN result : ~result[t] THEN "dns" ELSE fatal
    /\ MainUnchanged
    /\ NoFault
    /\ attempt' = 0
    /\ UNCHANGED <<defined, router_reachable>>

(***************************************************************************)
(* prompt_nonempty('Enter DNS server IP(s) (comma-separated): '): the run  *)
(* waits in input() until the operator answers with a non-blank line; the  *)
(* answer is written to /etc/resolv.conf and run_tests goes on to the      *)
(* ping_ok check. An EOFError of input() on a closed standard input, or a  *)
(* KeyboardInterrupt, is the Fault step below taken while waiting.         *)
(***************************************************************************)
PromptNonempty ==
    /\ UNCHANGED addr_script
    /\ UNCHANGED lo_steps
    /\ UNCHANGED if_cmds
    /\ UNCHANGED ifaces
    /\ UNCHANGED ospf_script
    /\ UNCHANGED lo_cmds
    /\ UNCHANGED subnets
    /\ UNCHANGED interface_up
    /\ UNCHANGED prefix
    /\ UNCHANGED netmask
    /\ UNCHANGED config
    /\ UNCHANGED printed
    /\ ProbeUnchanged
    /\ AreaUnchanged
    /\ pc = "prompt"
    /\ host' = [host EXCEPT !.resolv = "prompted"]
    /\ Goto("suite", IF InitialPingsFatal(ping_ok) THEN "SystemExit" ELSE "none")
    /\ MainUnchanged
    /\ NoFault
    /\ UNCHANGED <<test_results, defined, attempt, ping_ok, router_reachable,
                   trace, fatal>>

(***************************************************************************)
(* run_tests, the full suite: the connectivity check from the mgmt1 dummy  *)
(* address (return early when it never works), then the probes, each       *)
(* appending its outcome.                                                  *)
(***************************************************************************)
SuiteProbes == <<"Ping", "DNS", "NTP", "HTTPS", "SSL Certificate",
                 "UDP Connectivity Check for Guest Access">>

RECURSIVE ProbeOutcomes(_, _)
ProbeOutcomes(probes, passed) ==
    IF probes = <<>> THEN <<>>
    ELSE <<Outcome(Head(probes), "", passed)>> \o ProbeOutcomes(Tail(probes), passed)

SuiteMaxRetries == 5

\* for attempt in range(max_retries): ping -c 2 -I mgmt1_ip tgt; a zero
\* return code sets loopback_working and breaks. script[i] is the result of
\* the i-th ping.
RECURSIVE ConnectivityCheck(_, _)
ConnectivityCheck(i, script) ==
    IF i > SuiteMaxRetries
    THEN [loopback_working |-> FALSE, attempts |-> SuiteMaxRetries]
    ELSE IF script[i] THEN [loopback_working |-> TRUE, attempts |-> i]
    ELSE ConnectivityCheck(i + 1, script)

RunTestsSuite ==
    /\ UNCHANGED addr_script
    /\ UNCHANGED lo_steps
    /\ UNCHANGED if_cmds
    /\ UNCHANGED ifaces
    /\ UNCHANGED ospf_script
    /\ UNCHANGED lo_cmds
    /\ UNCHANGED subnets
    /\ UNCHANGED interface_up
    /\ UNCHANGED prefix
    /\ UNCHANGED netmask
    /\ UNCHANGED config
    /\ UNCHANGED printed
    /\ ProbeUnchanged
    /\ AreaUnchanged
    /\ pc = "suite"
    /\ \E script \in {[i \in 1..SuiteMaxRetries |-> b] : b \in BOOLEAN},
          passed \in BOOLEAN :
        LET r == ConnectivityCheck(1, script)
        IN  /\ attempt' = r.attempts
            /\ IF r.loopback_working
               THEN /\ trace' = Append(trace, "full_suite")
                    /\ test_results' = test_results
                                           \o ProbeOutcomes(SuiteProbes, passed)
               ELSE /\ ~passed
                    /\ UNCHANGED <<trace, test_results>>
    /\ Goto("final", "none")
    /\ MainUnchanged
    /\ UNCHANGED fatal
    /\ NoFault
    /\ UNCHANGED <<host, defined, ping_ok, router_reachable>>

(***************************************************************************)
(* An exception nobody expected, raised inside the try block between two   *)
(* of the steps above (a fault of the interpreter or of a library, or      *)
(* KeyboardInterrupt): control passes to the finally block.                *)
(***************************************************************************)
Fault ==
    /\ UNCHANGED addr_script
    /\ UNCHANGED lo_steps
    /\ UNCHANGED if_cmds
    /\ UNCHANGED ifaces
    /\ UNCHANGED ospf_script
    /\ UNCHANGED lo_cmds
    /\ UNCHANGED subnets
    /\ UNCHANGED interface_up
    /\ UNCHANGED prefix
    /\ UNCHANGED netmask
    /\ UNCHANGED config
    /\ UNCHANGED printed
    /\ ProbeUnchanged
    /\ AreaUnchanged
    /\ pc \in {"reset1", "cfg1", "loop1", "route1", "reset2", "cfg2", "loop2",
              "route2", "hello", "ospf", "ospfping", "adj", "tests", "prompt",
              "suite"}
    /\ Goto("final", "error")
    /\ MainUnchanged
    /\ UNCHANGED fatal
    /\ Env(TRUE)
    /\ UNCHANGED <<host, test_results, defined, attempt, ping_ok, trace, router_reachable>>

(***************************************************************************)
(* The finally block after restore_state: print_test_summary when          *)
(* test_results exists; then the pending exception, if any, ends the       *)
(* process with status 1, else main returns and the status is 0.           *)
(* PrintTestSummary is the summary and the end of the process after it;    *)
(* Exit is the end of a process that prints no summary.                    *)
(***************************************************************************)
excluded_tests == {<<"Static Default Route Configuration", "">>}

\* the name of an outcome: its text and the target it names
TestName(o) == <<o[1], o[2]>>

\* a summary that counts every outcome
SummaryCountsAll(results, success_count, total_count) ==
    <<success_count + Cardinality({i \in 1..Len(results) : results[i][3]}),
      total_count + Len(results)>>

\* for test_name, result in test_results: skip the excluded names;
\* total_count += 1; if result: success_count += 1
RECURSIVE SummaryCounts(_, _, _)
SummaryCounts(results, success_count, total_count) ==
    IF results = <<>> THEN <<success_count, total_count>>
    ELSE IF TestName(Head(results)) \in excluded_tests
         THEN SummaryCounts(Tail(results), success_count, total_count)
         ELSE SummaryCounts(Tail(results),
                            IF Head(results)[3] THEN success_count + 1
                            ELSE success_count,
                            total_count + 1)

\* success_rate = (success_count / total_count) * 100 if total_count > 0
\* else 0, as the "%.1f" of the Overall line shows it: in tenths of a
\* percent, rounded to the nearest, a tie to the even one
SuccessRate(success_count, total_count) ==
    IF total_count > 0
    THEN LET q == (success_count * 1000) \div total_count
             r == (success_count * 1000) % total_count
         IN  IF 2 * r < total_count THEN q
             ELSE IF 2 * r > total_count THEN q + 1
             ELSE IF q % 2 = 0 THEN q ELSE q + 1
    ELSE 0

ExitStatus(e) == IF e = "none" THEN 0 ELSE 1

PrintTestSummary ==
    /\ UNCHANGED addr_script
    /\ UNCHANGED lo_steps
    /\ UNCHANGED if_cmds
    /\ UNCHANGED ifaces
    /\ UNCHANGED ospf_script
    /\ UNCHANGED lo_cmds
    /\ UNCHANGED subnets
    /\ UNCHANGED interface_up
    /\ UNCHANGED prefix
    /\ UNCHANGED netmask
    /\ UNCHANGED config
    /\ AreaUnchanged
    /\ ProbeUnchanged
    /\ LET counts == SummaryCounts(test_results, 0, 0)
       IN  printed' = <<counts[1], counts[2], SuccessRate(counts[1], counts[2])>>
    /\ pc = "summary"
    /\ trace' = Append(trace, "print_test_summary")
    /\ pc' = "done"
    /\ exitCode' = ExitStatus(exc)
    /\ UNCHANGED <<state, restoreCalls, finalCalls, rlast>>
    /\ UNCHANGED fatal
    /\ NoFault
    /\ UNCHANGED <<host, exc, test_results, defined, attempt, ping_ok, router_reachable>>

\* the process ends without a summary
Exit ==
    /\ UNCHANGED addr_script
    /\ UNCHANGED lo_steps
    /\ UNCHANGED if_cmds
    /\ UNCHANGED ifaces
    /\ UNCHANGED ospf_script
    /\ UNCHANGED lo_cmds
    /\ UNCHANGED subnets
    /\ UNCHANGED interface_up
    /\ UNCHANGED prefix
    /\ UNCHANGED netmask
    /\ UNCHANGED config
    /\ UNCHANGED printed
    /\ ProbeUnchanged
    /\ AreaUnchanged
    /\ pc = "exit"
    /\ pc' = "done"
    /\ exitCode' = ExitStatus(exc)
    /\ UNCHANGED <<host, state, exc, test_results, defined, attempt, ping_ok,
                   trace, restoreCalls, finalCalls, router_reachable, rlast, fatal, faults>>

Next ==
    \/ GetUserInput
    \/ RecordState
    \/ RestoreState
    \/ ConfigureInterface
    \/ AddLoopbacks
    \/ ConfigureStaticRoute
    \/ SniffOspfHello
    \/ ConfigureOspf
    \/ PingPeer
    \/ ShowOspfStatus
    \/ RunTestsInitial
    \/ PromptNonempty
    \/ RunTestsSuite
    \/ Fault
    \/ PrintTestSummary
    \/ Exit

Spec == Init /\ [][Next]_vars

(***************************************************************************)
(* restore_state called twice in succession with the same snapshot, from   *)
(* hosts as the test phases (or an aborted run) can leave them.            *)
(***************************************************************************)
TwiceHosts ==
    {[dummies |-> d, addrs |-> a, up |-> u, routes |-> r,
      daemons |-> IF f THEN "ospfd=yes" ELSE "ospfd=no",
      resolv |-> IF f THEN "custom" ELSE "orig",
      frrconf |-> f, frrRunning |-> f, frrEnabled |-> e, otherUp |-> FALSE] :
        d \in {{}, Dummies},
        a \in SUBSET (OrigAddrs \cup {Inet6Addr, TestAddr, Placeholder}),
        u \in BOOLEAN, r \in {{}, {"gw"}}, f \in BOOLEAN, e \in BOOLEAN}

InitTwice ==
    /\ pc = "twice1"
    /\ pkt_area = "0.0.0.0"
    /\ state \in {Snapshot(h) : h \in InitHosts}
    /\ host \in TwiceHosts
    /\ exc = "none"
    /\ exitCode = -1
    /\ test_results = <<>>
    /\ defined = FALSE
    /\ attempt = 0
    /\ ping_ok = FALSE
    /\ router_reachable = FALSE
    /\ trace = <<"record_state">>
    /\ restoreCalls = 0
    /\ finalCalls = 0
    /\ rlast = "none"
    /\ fatal = "none"
    /\ faults = 0
    /\ addr_script = <<>>
    /\ lo_steps = <<>>
    /\ if_cmds = NoIfCmds
    /\ ifaces = ConfigIfaces
    /\ ospf_script = <<>>
    /\ lo_cmds = <<>>
    /\ subnets = ConfigSubnets
    /\ interface_up = "unset"
    /\ prefix = -1
    /\ netmask = ConfigNetmask
    /\ config = CompleteConfig
    /\ area = NoArea
    /\ cmds = <<>>
    /\ printed = <<>>
    /\ ProbeIdle

SpecTwice == InitTwice /\ [][RestoreState]_vars

(***************************************************************************)
(* The run from the hello capture on, for each area the hello can carry.   *)
(***************************************************************************)
InitArea ==
    /\ pc = "hello"
    /\ pkt_area \in AreaValues
    /\ \E h \in InitHosts :
        /\ state = Snapshot(h)
        /\ host = [h EXCEPT !.dummies = Dummies, !.addrs = {TestAddr}, !.up = TRUE,
                            !.routes = {"gw"}, !.otherUp = FALSE]
    /\ exc = "none"
    /\ exitCode = -1
    /\ test_results = <<Outcome(StaticRouteLabel, "", TRUE)>>
    /\ defined = TRUE
    /\ attempt = 0
    /\ ping_ok = FALSE
    /\ router_reachable = FALSE
    /\ trace = <<"record_state", "restore_state", "configure_interface",
                 "add_loopbacks", "configure_static_route", "restore_state",
                 "configure_interface", "add_loopbacks", "configure_static_route">>
    /\ restoreCalls = 2
    /\ finalCalls = 0
    /\ rlast = "ok"
    /\ fatal = "none"
    /\ faults = 0
    /\ addr_script = <<>>
    /\ lo_steps = CleanLoopbackSteps
    /\ if_cmds = DisableCmds(NoIfCmds, [dummies |-> {}, routes |-> state.routes],
                            ConfigIfaces, TRUE)
    /\ ifaces = ConfigIfaces
    /\ ospf_script = <<>>
    /\ lo_cmds = [i \in 1..Len(DummySeq) |->
                    LoopbackCmd(DummySeq[i], ConfigSubnets[DummySeq[i]])]
    /\ subnets = ConfigSubnets
    /\ interface_up \in {"true", "false"}
    /\ prefix = NetmaskPrefix(ConfigNetmask)
    /\ netmask = ConfigNetmask
    /\ config = CompleteConfig
    /\ area = NoArea
    /\ cmds = <<>>
    /\ printed = <<>>
    /\ ProbeIdle

NextArea ==
    \/ SniffOspfHello
    \/ ConfigureOspf
    \/ PingPeer
    \/ ShowOspfStatus
    \/ RunTestsInitial
    \/ PromptNonempty
    \/ RunTestsSuite
    \/ Fault
    \/ RestoreState
    \/ PrintTestSummary
    \/ Exit

SpecArea == InitArea /\ [][NextArea]_vars

(***************************************************************************)
(* print_test_summary on each outcome sequence of up to MaxOutcomes        *)
(* entries, the excluded name occurring any number of times.               *)
(***************************************************************************)
SummaryOutcomes ==
    {Outcome(t[1], t[2], b) :
        t \in {<<StaticRouteLabel, "">>, <<"OSPF Adjacency Test", "">>,
                <<"Initial Ping", "8.8.8.8">>},
        b \in BOOLEAN}

RECURSIVE SeqsUpTo(_, _)
SeqsUpTo(S, n) ==
    IF n = 0 THEN {<<>>}
    ELSE LET P == SeqsUpTo(S, n - 1)
         IN  P \cup {Append(q, x) : q \in {p \in P : Len(p) = n - 1}, x \in S}

InitSummary ==
    /\ pc = "summary"
    /\ \E h \in InitHosts :
        /\ h.addrs = {} /\ h.routes = {} /\ h.dummies = {} /\ ~h.frrEnabled
        /\ h.up /\ ~h.otherUp
        /\ state = Snapshot(h)
        /\ host = h
    /\ test_results \in SeqsUpTo(SummaryOutcomes, MaxOutcomes)
    /\ defined = TRUE
    /\ pkt_area = "0.0.0.0"
    /\ exc = "none"
    /\ exitCode = -1
    /\ attempt = 0
    /\ ping_ok = TRUE
    /\ router_reachable = TRUE
    /\ trace = <<"restore_state">>
    /\ restoreCalls = 3
    /\ finalCalls = 1
    /\ rlast = "ok"
    /\ fatal = "none"
    /\ faults = 0
    /\ addr_script = <<>>
    /\ lo_steps = CleanLoopbackSteps
    /\ if_cmds = DisableCmds(NoIfCmds, [dummies |-> {}, routes |-> state.routes],
                            ConfigIfaces, TRUE)
    /\ ifaces = ConfigIfaces
    /\ ospf_script = <<>>
    /\ lo_cmds = [i \in 1..Len(DummySeq) |->
                    LoopbackCmd(DummySeq[i], ConfigSubnets[DummySeq[i]])]
    /\ subnets = ConfigSubnets
    /\ interface_up = "true"
    /\ prefix = NetmaskPrefix(ConfigNetmask)
    /\ netmask = ConfigNetmask
    /\ config = CompleteConfig
    /\ area = NoArea
    /\ cmds = <<>>
    /\ printed = <<>>
    /\ ProbeIdle

SpecSummary == InitSummary /\ [][PrintTestSummary]_vars

(***************************************************************************)
(* run_tests' DHCP relay probe: for srv in dhcp_servers, a ping pre-check, *)
(* then a capture thread and the dhcppython lease request, then the        *)
(* capture's verdict, then the raw discover with a second capture. The     *)
(* capture threads run beside the loop; one that is not joined keeps       *)
(* running (up to its timeout) while the loop goes on.                     *)
(***************************************************************************)
ServerNames == <<"dhcp-1", "dhcp-2", "dhcp-3", "dhcp-4">>
dhcp_servers == SubSeq(ServerNames, 1, MaxServers)
RelayLabel == "DHCP relay to"

ProbeFrame ==
    UNCHANGED <<pc, host, state, exc, exitCode, defined, attempt, ping_ok,
                router_reachable, trace, restoreCalls, finalCalls, rlast, fatal,
                faults, pkt_area, area, cmds, printed>>

Log(ops) == probe_ops' = probe_ops \o [i \in 1..Len(ops) |-> <<srv, ops[i]>>]

\* a handler that prints the failure and records nothing
RelayOutcomeFailureDropped(result) ==
    /\ test_results' = IF result
                       THEN Append(test_results,
                                   Outcome(RelayLabel, dhcp_servers[srv], result))
                       ELSE test_results
    /\ srv' = srv + 1
    /\ ppc' = "precheck"

\* test_results.append((f'DHCP relay to {srv}', result)), end of the loop body
RelayOutcome(result) ==
    /\ test_results' = Append(test_results, Outcome(RelayLabel, dhcp_servers[srv], result))
    /\ srv' = srv + 1
    /\ ppc' = "precheck"

\* a pre-check without the `continue`
AfterPrecheckNoContinue(ok) == "setup"

\* p = ping -c 5 srv; if p.returncode != 0: ...; continue
AfterPrecheck(ok) == IF ok THEN "setup" ELSE "precheck"

DhcpPrecheck ==
    /\ UNCHANGED addr_script
    /\ UNCHANGED lo_steps
    /\ UNCHANGED if_cmds
    /\ UNCHANGED ifaces
    /\ UNCHANGED ospf_script
    /\ UNCHANGED lo_cmds
    /\ UNCHANGED subnets
    /\ UNCHANGED interface_up
    /\ UNCHANGED prefix
    /\ UNCHANGED netmask
    /\ UNCHANGED config
    /\ ppc = "precheck"
    /\ srv <= Len(dhcp_servers)
    /\ \E ok \in BOOLEAN :
        /\ Log(<<IF ok THEN "ping_ok" ELSE "ping_fail">>)
        /\ IF ok
           THEN UNCHANGED <<test_results, srv>>
           ELSE /\ test_results' = Append(test_results,
                                        Outcome(RelayLabel, dhcp_servers[srv], FALSE))
                /\ srv' = IF AfterPrecheck(ok) = "precheck" THEN srv + 1 ELSE srv
        /\ ppc' = AfterPrecheck(ok)
    /\ UNCHANGED <<offer_received, threads>>
    /\ ProbeFrame

\* the MAC lookup, DHCPClient(...), the option list (an exception of these
\* is caught by the outer handler: a failed outcome), offer_received =
\* False, sniff_thread.start()
DhcpStartCapture ==
    /\ UNCHANGED addr_script
    /\ UNCHANGED lo_steps
    /\ UNCHANGED if_cmds
    /\ UNCHANGED ifaces
    /\ UNCHANGED ospf_script
    /\ UNCHANGED lo_cmds
    /\ UNCHANGED subnets
    /\ UNCHANGED interface_up
    /\ UNCHANGED prefix
    /\ UNCHANGED netmask
    /\ UNCHANGED config
    /\ ppc = "setup"
    /\ \E raised \in BOOLEAN :
        IF raised
        THEN /\ Log(<<"setup_raised">>)
             /\ RelayOutcome(FALSE)
             /\ UNCHANGED <<offer_received, threads>>
        ELSE /\ Log(<<"capture1">>)
             /\ offer_received' = FALSE
             /\ threads' = threads \cup {<<srv, 1>>}
             /\ ppc' = "lease"
             /\ UNCHANGED <<test_results, srv>>
    /\ ProbeFrame

\* a probe that goes on to the capture's verdict after a lease
AfterLeaseFallThrough(lease) == "join1"

\* lease = c.get_lease(...): the outcome, or the except branch
AfterLease(lease) == IF lease THEN "precheck" ELSE "join1"

DhcpGetLease ==
    /\ UNCHANGED addr_script
    /\ UNCHANGED lo_steps
    /\ UNCHANGED if_cmds
    /\ UNCHANGED ifaces
    /\ UNCHANGED ospf_script
    /\ UNCHANGED lo_cmds
    /\ UNCHANGED subnets
    /\ UNCHANGED interface_up
    /\ UNCHANGED prefix
    /\ UNCHANGED netmask
    /\ UNCHANGED config
    /\ ppc = "lease"
    /\ \E lease \in BOOLEAN :
        /\ Log(<<IF lease THEN "lease" ELSE "no_lease">>)
        /\ IF lease
           THEN /\ test_results' = Append(test_results,
                                        Outcome(RelayLabel, dhcp_servers[srv], TRUE))
                /\ srv' = IF AfterLease(lease) = "precheck" THEN srv + 1 ELSE srv
           ELSE UNCHANGED <<test_results, srv>>
        /\ ppc' = AfterLease(lease)
    /\ UNCHANGED <<offer_received, threads>>
    /\ ProbeFrame

\* a verdict that ignores the first capture
FirstCaptureIgnored(offer) == FALSE

\* sniff_thread.join(); if offer_received: success
FirstCaptureDecides(offer) == offer

\* else: the discover packet is built, offer_received = False, a second
\* capture thread is started
DhcpJoin ==
    /\ UNCHANGED addr_script
    /\ UNCHANGED lo_steps
    /\ UNCHANGED if_cmds
    /\ UNCHANGED ifaces
    /\ UNCHANGED ospf_script
    /\ UNCHANGED lo_cmds
    /\ UNCHANGED subnets
    /\ UNCHANGED interface_up
    /\ UNCHANGED prefix
    /\ UNCHANGED netmask
    /\ UNCHANGED config
    /\ ppc = "join1"
    /\ <<srv, 1>> \notin threads
    /\ IF FirstCaptureDecides(offer_received)
       THEN /\ Log(<<"offer_detected">>)
            /\ RelayOutcome(TRUE)
            /\ UNCHANGED <<offer_received, threads>>
       ELSE /\ Log(<<"discover_built", "capture2">>)
            /\ offer_received' = FALSE
            /\ threads' = threads \cup {<<srv, 2>>}
            /\ ppc' = "send"
            /\ UNCHANGED <<test_results, srv>>
    /\ ProbeFrame

\* the module imports sniff, sr1, send and Raw from scapy.all: the name
\* sendp is not bound, and calling it raises NameError
SendpBound == FALSE

\* sendp(dhcp_discover, iface=iface, verbose=0); sniff_thread.join(); the
\* outcome is offer_received. An exception is caught by the handler of the
\* enclosing try: a failed outcome.
DhcpRawDiscover ==
    /\ UNCHANGED addr_script
    /\ UNCHANGED lo_steps
    /\ UNCHANGED if_cmds
    /\ UNCHANGED ifaces
    /\ UNCHANGED ospf_script
    /\ UNCHANGED lo_cmds
    /\ UNCHANGED subnets
    /\ UNCHANGED interface_up
    /\ UNCHANGED prefix
    /\ UNCHANGED netmask
    /\ UNCHANGED config
    /\ ppc \in {"send", "join2"}
    /\ IF ppc = "send"
       THEN IF SendpBound
            THEN /\ Log(<<"sendp">>)
                 /\ ppc' = "join2"
                 /\ UNCHANGED <<test_results, srv>>
            ELSE /\ Log(<<"NameError">>)
                 /\ RelayOutcome(FALSE)
       ELSE /\ <<srv, 2>> \notin threads
            /\ Log(<<"joined2">>)
            /\ RelayOutcome(offer_received)
    /\ UNCHANGED <<offer_received, threads>>
    /\ ProbeFrame

\* a running capture thread: dhcp_callback sees an OFFER (offer_received =
\* True, stop_filter ends the capture) or the timeout ends it
Capture ==
    /\ UNCHANGED addr_script
    /\ UNCHANGED lo_steps
    /\ UNCHANGED if_cmds
    /\ UNCHANGED ifaces
    /\ UNCHANGED ospf_script
    /\ UNCHANGED lo_cmds
    /\ UNCHANGED subnets
    /\ UNCHANGED interface_up
    /\ UNCHANGED prefix
    /\ UNCHANGED netmask
    /\ UNCHANGED config
    /\ \E t \in threads, offer \in BOOLEAN :
        /\ threads' = threads \ {t}
        /\ offer_received' = IF offer THEN TRUE ELSE offer_received
        /\ probe_ops' = Append(probe_ops,
               <<t[1], CASE offer /\ t[2] = 1 -> "offer1"
                         [] offer /\ t[2] = 2 -> "offer2"
                         [] ~offer /\ t[2] = 1 -> "timeout1"
                         [] OTHER -> "timeout2">>)
    /\ UNCHANGED <<srv, ppc, test_results>>
    /\ ProbeFrame

InitDhcp ==
    /\ pc = "suite"
    /\ \E h \in InitHosts :
        /\ h.addrs = {} /\ h.routes = {} /\ h.dummies = {} /\ ~h.frrEnabled
        /\ h.up /\ ~h.otherUp
        /\ state = Snapshot(h)
        /\ host = [h EXCEPT !.dummies = Dummies, !.addrs = {TestAddr},
                            !.routes = {"gw"}, !.resolv = "prompted"]
    /\ test_results = <<>>
    /\ defined = TRUE
    /\ pkt_area = "0.0.0.0"
    /\ exc = "none"
    /\ exitCode = -1
    /\ attempt = 1
    /\ ping_ok = TRUE
    /\ router_reachable = TRUE
    /\ trace = <<"run_tests", "full_suite">>
    /\ restoreCalls = 2
    /\ finalCalls = 0
    /\ rlast = "ok"
    /\ fatal = "none"
    /\ faults = 0
    /\ addr_script = <<>>
    /\ lo_steps = CleanLoopbackSteps
    /\ if_cmds = DisableCmds(NoIfCmds, [dummies |-> {}, routes |-> state.routes],
                            ConfigIfaces, TRUE)
    /\ ifaces = ConfigIfaces
    /\ ospf_script = <<>>
    /\ lo_cmds = [i \in 1..Len(DummySeq) |->
                    LoopbackCmd(DummySeq[i], ConfigSubnets[DummySeq[i]])]
    /\ subnets = ConfigSubnets
    /\ interface_up = "true"
    /\ prefix = NetmaskPrefix(ConfigNetmask)
    /\ netmask = ConfigNetmask
    /\ config = CompleteConfig
    /\ area = "0.0.0.0"
    /\ cmds = NetworkCmds("0.0.0.0")
    /\ printed = <<>>
    /\ ProbeIdle

NextDhcp ==
    \/ DhcpPrecheck
    \/ DhcpStartCapture
    \/ DhcpGetLease
    \/ DhcpJoin
    \/ DhcpRawDiscover
    \/ Capture

SpecDhcp == InitDhcp /\ [][NextDhcp]_vars

(***************************************************************************)
(* The start of main for every configuration file that omits up to         *)
(* MaxMissing keys: get_user_input, then record_state.                     *)
(***************************************************************************)
InitInput ==
    /\ pc = "input"
    /\ pkt_area = "0.0.0.0"
    /\ host \in InitHosts
    /\ config \in Configs(MaxMissing)
    /\ netmask = ConfigNetmask
    /\ ifaces = ConfigIfaces
    /\ InitCommon

NextInput ==
    \/ GetUserInput
    \/ RecordState

SpecInput == InitInput /\ [][NextInput]_vars

(***************************************************************************)
(* The first configure_interface of a run for every netmask of Netmasks.   *)
(***************************************************************************)
InitPrefix ==
    /\ pc = "cfg1"
    /\ pkt_area = "0.0.0.0"
    /\ \E h \in InitHosts :
        /\ h.addrs = {} /\ h.routes = {} /\ h.dummies = {} /\ ~h.frrEnabled
        /\ h.up /\ h.otherUp
        /\ state = Snapshot(h)
        /\ host = h
    /\ config = CompleteConfig
    /\ netmask \in Netmasks
    /\ exc = "none"
    /\ exitCode = -1
    /\ test_results = <<>>
    /\ defined = FALSE
    /\ attempt = 0
    /\ ping_ok = FALSE
    /\ router_reachable = FALSE
    /\ trace = <<"record_state", "restore_state">>
    /\ restoreCalls = 1
    /\ finalCalls = 0
    /\ rlast = "ok"
    /\ fatal = "none"
    /\ faults = 0
    /\ addr_script = <<>>
    /\ lo_steps = <<>>
    /\ if_cmds = NoIfCmds
    /\ ifaces = ConfigIfaces
    /\ ospf_script = <<>>
    /\ lo_cmds = <<>>
    /\ subnets = ConfigSubnets
    /\ interface_up = "unset"
    /\ prefix = -1
    /\ area = NoArea
    /\ cmds = <<>>
    /\ printed = <<>>
    /\ ProbeIdle

SpecPrefix == InitPrefix /\ [][ConfigureInterface]_vars

(***************************************************************************)
(* The first add_loopbacks of a run for every choice of the three subnets. *)
(***************************************************************************)
InitLoopbacks ==
    /\ pc = "loop1"
    /\ pkt_area = "0.0.0.0"
    /\ \E h \in InitHosts :
        /\ h.addrs = {} /\ h.routes = {} /\ h.dummies = {} /\ ~h.frrEnabled
        /\ h.up /\ h.otherUp
        /\ state = Snapshot(h)
        /\ \E d \in {{}, {"mgmt1"}, {"mgmt2", "client"}} :
            host = [h EXCEPT !.addrs = {TestAddr}, !.otherUp = FALSE,
                             !.dummies = d]
    /\ config = CompleteConfig
    /\ netmask = ConfigNetmask
    /\ subnets \in [{"mgmt1", "mgmt2", "client"} -> SubnetInputs]
    /\ exc = "none"
    /\ exitCode = -1
    /\ test_results = <<>>
    /\ defined = FALSE
    /\ attempt = 0
    /\ ping_ok = FALSE
    /\ router_reachable = FALSE
    /\ trace = <<"record_state", "restore_state", "configure_interface">>
    /\ restoreCalls = 1
    /\ finalCalls = 0
    /\ rlast = "ok"
    /\ fatal = "none"
    /\ faults = 0
    /\ addr_script \in [1..Len(DummySeq) -> BOOLEAN]
    /\ lo_steps = <<>>
    /\ if_cmds = DisableCmds(NoIfCmds, [dummies |-> {}, routes |-> state.routes],
                            ConfigIfaces, TRUE)
    /\ ifaces = ConfigIfaces
    /\ ospf_script = <<>>
    /\ interface_up = "unset"
    /\ prefix = NetmaskPrefix(ConfigNetmask)
    /\ lo_cmds = <<>>
    /\ area = NoArea
    /\ cmds = <<>>
    /\ printed = <<>>
    /\ ProbeIdle

SpecLoopbacks == InitLoopbacks /\ [][AddLoopbacks]_vars

(***************************************************************************)
(* show_ospf_status against each script of neighbor reports, fixed         *)
(* beforehand, after a second pass that ended either way.                  *)
(***************************************************************************)
InitAdjacency ==
    /\ pc = "adj"
    /\ pkt_area = "0.0.0.0"
    /\ \E h \in InitHosts :
        /\ h.addrs = {} /\ h.routes = {} /\ h.dummies = {} /\ ~h.frrEnabled
        /\ h.up /\ h.otherUp
        /\ state = Snapshot(h)
        /\ host = OspfHost([h EXCEPT !.dummies = Dummies, !.addrs = {TestAddr},
                                     !.routes = {"gw"}, !.otherUp = FALSE], "ok")
    /\ ospf_script \in PollScripts
    /\ exc = "none"
    /\ exitCode = -1
    /\ \E route_added \in BOOLEAN :
        test_results = <<Outcome(StaticRouteLabel, "", route_added)>>
    /\ defined = TRUE
    /\ attempt = 0
    /\ ping_ok = FALSE
    /\ router_reachable = TRUE
    /\ trace = <<"record_state", "restore_state", "configure_interface",
                 "add_loopbacks", "configure_static_route", "restore_state",
                 "configure_interface", "add_loopbacks", "configure_static_route",
                 "sniff_ospf_hello", "configure_ospf">>
    /\ restoreCalls = 2
    /\ finalCalls = 0
    /\ rlast = "ok"
    /\ fatal = "none"
    /\ faults = 0
    /\ addr_script = <<>>
    /\ lo_steps = CleanLoopbackSteps
    /\ if_cmds = DisableCmds(NoIfCmds, [dummies |-> {}, routes |-> state.routes],
                            ConfigIfaces, TRUE)
    /\ ifaces = ConfigIfaces
    /\ lo_cmds = [i \in 1..Len(DummySeq) |->
                    LoopbackCmd(DummySeq[i], ConfigSubnets[DummySeq[i]])]
    /\ subnets = ConfigSubnets
    /\ interface_up \in {"true", "false"}
    /\ prefix = NetmaskPrefix(ConfigNetmask)
    /\ netmask = ConfigNetmask
    /\ config = CompleteConfig
    /\ area = "0.0.0.0"
    /\ cmds = NetworkCmds("0.0.0.0")
    /\ printed = <<>>
    /\ ProbeIdle

SpecAdjacency == InitAdjacency /\ [][ShowOspfStatus]_vars

(***************************************************************************)
(* The first configure_interface of a run for every interface setting.     *)
(***************************************************************************)
InitDisable ==
    /\ pc = "cfg1"
    /\ pkt_area = "0.0.0.0"
    /\ \E h \in InitHosts :
        /\ h.addrs = {} /\ ~h.frrEnabled /\ h.up
        /\ state = Snapshot(h)
        /\ host = h
    /\ ifaces \in IfaceInputs
    /\ host.otherUp => "eth-other" \in ifaces.base
    /\ "mgmt" \in host.routes => ifaces.mgmt \in ifaces.base
    /\ if_cmds = NoIfCmds
    /\ ospf_script = <<>>
    /\ config = CompleteConfig
    /\ netmask = ConfigNetmask
    /\ subnets = ConfigSubnets
    /\ exc = "none"
    /\ exitCode = -1
    /\ test_results = <<>>
    /\ defined = FALSE
    /\ attempt = 0
    /\ ping_ok = FALSE
    /\ router_reachable = FALSE
    /\ trace = <<"record_state", "restore_state">>
    /\ restoreCalls = 1
    /\ finalCalls = 0
    /\ rlast = "ok"
    /\ fatal = "none"
    /\ faults = 0
    /\ addr_script = <<>>
    /\ lo_steps = <<>>
    /\ interface_up = "unset"
    /\ prefix = -1
    /\ lo_cmds = <<>>
    /\ area = NoArea
    /\ cmds = <<>>
    /\ printed = <<>>
    /\ ProbeIdle

SpecDisable == InitDisable /\ [][ConfigureInterface]_vars

(***************************************************************************)
(* The full run on hosts whose interfaces are up or down when it starts,   *)
(* the set of those that are up being written down beforehand.             *)
(***************************************************************************)
InitLinks ==
    /\ pc = "input"
    /\ pkt_area = "0.0.0.0"
    /\ host \in {h \in InitHosts : h.addrs = {} /\ h.dummies = {} /\ ~h.frrEnabled}
    /\ config = CompleteConfig
    /\ netmask = ConfigNetmask
    /\ ifaces = [ConfigIfaces EXCEPT !.up0 = UpAtStart(host)]
    /\ InitCommon

SpecLinks == InitLinks /\ [][Next]_vars

(***************************************************************************)
(* Properties.                                                             *)
(***************************************************************************)
Did(op) == \E i \in 1..Len(trace) : trace[i] = op

Snapshotted == state # NoState

\* main is past the finally block's restore_state
AfterFinal == pc \in {"summary", "exit", "done"}

\* the operations of the configure, provision, route, routing and probe phases
PhaseOps == {"configure_interface", "add_loopbacks", "configure_static_route",
             "sniff_ospf_hello", "configure_ospf", "show_ospf_status",
             "run_tests", "full_suite"}

\* C1, as stated: in every run that captured a snapshot restore_state is
\* invoked exactly once between the snapshot and the end of the process.
C1_RestoreExactlyOnce ==
    (pc = "done" /\ Snapshotted) => restoreCalls = 1

\* C1, amended: in every run that captured a snapshot the finally block
\* invokes restore_state exactly once, whatever ended the try block; the
\* try block invokes it up to twice more (before each configuration pass),
\* so a run invokes it at most three times, and exactly three times when
\* the try block got past the second pass.
C1_RestoreOnceInFinally ==
    /\ finalCalls <= 1
    /\ restoreCalls <= finalCalls + 2
    /\ (pc = "done" /\ Snapshotted) => (finalCalls = 1 /\ restoreCalls >= 1)
    /\ (pc = "done" /\ Did("sniff_ospf_hello")) => restoreCalls = 3

C1_Witness ==
    /\ pc = "done"
    /\ fatal = "peer"
    /\ restoreCalls = 3
    /\ finalCalls = 1

\* C2: on every termination path after the snapshot a restore_state call
\* starts after the last operation of the configure, provision, route,
\* routing and probe phases, and none of them runs once the final restore
\* has begun.
C2_RestoreAfterLastPhaseOp ==
    /\ (AfterFinal /\ Snapshotted) =>
          /\ finalCalls = 1
          /\ \A j \in 1..Len(trace) :
                trace[j] \in PhaseOps =>
                    \E i \in (j + 1)..Len(trace) : trace[i] = "restore_state"
    /\ finalCalls = 1 => trace[Len(trace)] \notin PhaseOps

C2_Witness ==
    /\ pc = "done"
    /\ exc = "error"
    /\ finalCalls = 1
    /\ trace[Len(trace) - 1] = "add_loopbacks"

\* C3: record_state is the first operation of the run, nothing changes the
\* host before the snapshot exists, and record_state changes nothing.
C3_SnapshotBeforeMutation ==
    [][/\ state = NoState => host' = host
       /\ trace' # <<>> => trace'[1] = "record_state"]_vars

C3_Witness ==
    /\ Snapshotted
    /\ trace[1] = "record_state"
    /\ TestAddr \in host.addrs

\* C4: when no routing-protocol packet is captured within the hello
\* timeout, the try block is left at once: no configure_ospf, adjacency
\* poll or probe is started, restore_state is called by the finally block,
\* and the process ends with a non-zero status.
C4_HelloTimeoutAborts ==
    fatal = "hello" =>
        /\ pc \in {"final", "summary", "exit", "done"}
        /\ exc # "none"
        /\ ~Did("configure_ospf") /\ ~Did("show_ospf_status") /\ ~Did("run_tests")
        /\ ~Did("full_suite")
        /\ pc = "done" => (exitCode = 1 /\ finalCalls = 1)

C4_Witness ==
    /\ fatal = "hello"
    /\ pc = "done"
    /\ exitCode = 1
    /\ trace[Len(trace)] = "restore_state"

\* C5: configure_ospf probes the peer at most PeerMaxRetries (3) times and
\* not again after a success; when the third probe fails too the try block
\* is left at once (no adjacency poll, no run_tests), restore_state is
\* called and the process ends with a non-zero status.
C5_PeerProbesBounded ==
    /\ pc = "ospfping" => (attempt < PeerMaxRetries /\ ~router_reachable)
    /\ fatal = "peer" =>
        /\ pc \in {"final", "summary", "exit", "done"}
        /\ exc # "none"
        /\ ~Did("show_ospf_status") /\ ~Did("run_tests") /\ ~Did("full_suite")
        /\ pc = "done" => (exitCode = 1 /\ finalCalls = 1)

C5_Witness ==
    /\ fatal = "peer"
    /\ pc = "done"
    /\ exitCode = 1
    /\ finalCalls = 1

\* the outcomes of the initial pings recorded so far, all failed
InitialPingTexts == {"Initial Ping", "Initial Ping Custom DNS"}

AllInitialPingsFailed ==
    /\ Did("run_tests")
    /\ \A i \in 1..Len(test_results) :
          test_results[i][1] \in InitialPingTexts => ~test_results[i][3]

\* C6: when every initial ping of the default and of the custom DNS
\* servers fails (after its retry), run_tests exits: no probe of the full
\* suite is executed, restore_state is executed and the process ends with
\* a non-zero status. The exit comes after the DNS prompt of run_tests,
\* where the run may be waiting.
C6_AllDnsUnreachableAborts ==
    AllInitialPingsFailed =>
        /\ fatal = "dns"
        /\ ~ping_ok
        /\ pc \in {"prompt", "final", "summary", "exit", "done"}
        /\ pc # "prompt" => exc # "none"
        /\ ~Did("full_suite")
        /\ pc = "done" => (exitCode = 1 /\ finalCalls = 1)

C6_Witness ==
    /\ AllInitialPingsFailed
    /\ \E i \in 1..Len(test_results) : test_results[i][1] = "Initial Ping Custom DNS"
    /\ pc = "done"
    /\ exitCode = 1
    /\ trace[Len(trace)] = "print_test_summary"

\* C7, as stated: restore_state never raises, whichever of its steps fail.
C7_RestoreNeverRaises ==
    rlast # "raised"

\* C8: restore_state called twice in succession with the same snapshot,
\* no command failing for a reason other than the state of the host: the
\* second call raises nothing and leaves the interfaces, addresses, routes
\* and files as the first call left them.
C8_RestoreIdempotent ==
    [][(pc = "twice2" /\ faults' = 0) => (exc' = "none" /\ host' = host)]_vars

C8_Witness ==
    /\ pc = "twiceDone"
    /\ restoreCalls = 2
    /\ faults = 0
    /\ exc = "none"
    /\ host.addrs = {Placeholder}

\* C9: after a restore_state all of whose commands succeeded, for a
\* snapshot holding at least one address, the addresses of the test
\* interface are exactly the addresses of the snapshot.
C9_AddressesRestored ==
    (/\ pc \in {"cfg1", "cfg2", "summary", "exit", "done"}
     /\ Snapshotted
     /\ rlast = "ok"
     /\ state.addrs # {}) => host.addrs = state.addrs

C9_Witness ==
    /\ pc = "done"
    /\ rlast = "ok"
    /\ state.addrs # {}
    /\ host.addrs = state.addrs
    /\ Did("configure_ospf")

\* C10, as stated: after the final restore the host's default routes are
\* the default routes of the snapshot (here: of a run in which no command
\* failed).
C10_RoutesRestored ==
    (pc = "done" /\ finalCalls = 1 /\ rlast = "ok" /\ faults = 0) =>
        host.routes = state.routes

\* a run in which no command failed, ended, its final restore done
CleanRunDone ==
    pc = "done" /\ finalCalls = 1 /\ rlast = "ok" /\ faults = 0

\* C11, as stated: after the final restore the routing service is enabled
\* at boot exactly when the snapshot recorded it enabled.
C11_FrrEnabledRestored ==
    CleanRunDone => host.frrEnabled = state.frr_enabled

\* C12: at the end of every run whose final restore's commands all
\* succeeded, completed or aborted, /etc/frr/daemons and /etc/resolv.conf
\* hold exactly the text of the snapshot and /etc/frr/frr.conf is absent.
C12_FilesRestored ==
    (pc = "done" /\ finalCalls = 1 /\ rlast = "ok") =>
        /\ host.daemons = state.daemons
        /\ host.resolv = state.resolv
        /\ ~host.frrconf

C12_Witness ==
    /\ pc = "done"
    /\ rlast = "ok"
    /\ fatal = "dns"
    /\ state.daemons = "ospfd=no"
    /\ host.daemons = "ospfd=no"
    /\ host.resolv = "orig"

\* C13: a restore_state call creates no dummy interface and, when none of
\* its delete commands fails on an existing interface, leaves none of
\* dummy_mgmt1, dummy_mgmt2, dummy_client, whatever the snapshot holds and
\* whether or not they existed before the call.
C13_DummiesDeleted ==
    [][restoreCalls' # restoreCalls =>
          /\ host'.dummies \subseteq host.dummies
          /\ faults' = faults => host'.dummies = {}]_vars

C13_Witness ==
    /\ pc = "cfg2"
    /\ rlast = "ok"
    /\ Did("add_loopbacks")
    /\ state.addrs # {}
    /\ host.dummies = {}

\* C14: the area of the hello packet reaches every network command of
\* configure_ospf's vtysh script as it was observed, dotted forms
\* included: main's `area` is the packet's area, and each of the four
\* commands ends in that same value.
C14_AreaOpaque ==
    /\ area \in {NoArea, pkt_area}
    /\ Did("configure_ospf") => area = pkt_area
    /\ cmds # <<>> =>
          /\ Len(cmds) = Len(OspfNetworks)
          /\ \A i \in 1..Len(cmds) : cmds[i][4] = pkt_area

C14_Witness ==
    /\ pkt_area = "10.0.0.5"
    /\ Len(cmds) = 4
    /\ cmds[4] = <<"network", "n3", "area", "10.0.0.5">>
    /\ Did("show_ospf_status")

\* the positions of a sequence of outcomes that hold another name than
\* the excluded one, and those of them that passed
Counted(results) ==
    {i \in 1..Len(results) :
        ~(results[i][1] = "Static Default Route Configuration" /\ results[i][2] = "")}

CountedPassed(results) == {i \in Counted(results) : results[i][3]}

\* C15: the denominator print_test_summary prints is the number of
\* outcomes named otherwise than "Static Default Route Configuration", its
\* numerator the number of passed ones among them, however often the
\* excluded name occurs; and printing leaves the sequence as it was.
C15_SummaryCounts ==
    /\ [](printed # <<>> =>
            /\ printed[2] = Cardinality(Counted(test_results))
            /\ printed[1] = Cardinality(CountedPassed(test_results)))
    /\ [][printed' # printed => test_results' = test_results]_vars

C15_Witness ==
    /\ printed = <<1, 1, 1000>>
    /\ Len(test_results) = 3
    /\ test_results[1] = test_results[3]
    /\ test_results[1][1] = "Static Default Route Configuration"
    /\ test_results[1][3]

\* what the relay probe did or saw for the server at position s
Op(s, o) == \E i \in 1..Len(probe_ops) : probe_ops[i] = <<s, o>>

Servers == 1..Len(dhcp_servers)

\* the raw discover of the fallback was built, or handed to sendp
RawDiscover(s) == Op(s, "discover_built") \/ Op(s, "capture2") \/ Op(s, "sendp")

\* C16: when get_lease returns a lease for a server, the outcome of that
\* server is a success and no raw discover is built or sent for it.
C16_LeaseSkipsFallback ==
    \A s \in Servers :
        Op(s, "lease") =>
            /\ srv > s
            /\ test_results[s] = Outcome(RelayLabel, dhcp_servers[s], TRUE)
            /\ ~RawDiscover(s)

C16_Witness ==
    /\ srv > 2
    /\ Op(1, "lease")
    /\ Op(2, "discover_built")
    /\ test_results[1][3]

\* C17: when get_lease fails for a server and its first capture saw an
\* offer, the outcome of that server is a success and no raw discover is
\* built or sent for it.
C17_CaptureSkipsFallback ==
    \A s \in Servers :
        (Op(s, "no_lease") /\ Op(s, "offer1") /\ srv > s) =>
            /\ test_results[s] = Outcome(RelayLabel, dhcp_servers[s], TRUE)
            /\ Op(s, "offer_detected")
            /\ ~RawDiscover(s)

C17_Witness ==
    /\ srv > 1
    /\ Op(1, "no_lease")
    /\ Op(1, "offer1")
    /\ test_results[1][3]

\* C18, as stated: when get_lease fails and the first capture saw no
\* offer, the raw discover is transmitted with a second capture running,
\* and the outcome is a success exactly when that capture sees an offer.
C18_FallbackDecides ==
    \A s \in Servers :
        (Op(s, "no_lease") /\ Op(s, "discover_built") /\ srv > s) =>
            /\ Op(s, "capture2")
            /\ Op(s, "sendp")
            /\ test_results[s][3] = Op(s, "offer2")

\* C19: the outcomes of the relay probe are one per server gone through,
\* each named for its server, in the order of dhcp_servers, on every path
\* (pre-check failed, lease, offer captured, fallback, exception).
C19_OneOutcomePerServer ==
    /\ srv \in 1..(Len(dhcp_servers) + 1)
    /\ Len(test_results) = srv - 1
    /\ \A i \in 1..Len(test_results) :
          /\ test_results[i][1] = RelayLabel
          /\ test_results[i][2] = dhcp_servers[i]

C19_Witness ==
    /\ srv > 2
    /\ Op(1, "setup_raised")
    /\ Op(2, "NameError")
    /\ Len(test_results) >= 2

\* C20: when the ping pre-check of a server fails, a failed outcome is
\* recorded for it, no capture is started and no lease request or discover
\* is made for it, and the loop is at the next server.
C20_UnreachableSkipped ==
    \A s \in Servers :
        Op(s, "ping_fail") =>
            /\ srv > s
            /\ test_results[s] = Outcome(RelayLabel, dhcp_servers[s], FALSE)
            /\ ~Op(s, "capture1") /\ ~Op(s, "lease") /\ ~Op(s, "no_lease")
            /\ ~RawDiscover(s)

C20_Witness ==
    /\ Op(1, "ping_fail")
    /\ Op(2, "capture1")
    /\ ~test_results[1][3]

\* C21, as stated: every capture thread the relay probe starts is joined
\* before the outcome of its server is appended: between two servers, and
\* after the last one, no capture thread is running.
C21_CapturesJoined ==
    ppc = "precheck" => threads = {}

\* C22, as stated: a run in which no fatal condition occurs (a hello was
\* observed, the peer answered, a DNS server answered the initial ping) and
\* whose try block ran to the end of the probes ends with exit status 0,
\* whatever configure_interface, configure_static_route, show_ospf_status
\* and the probes returned.
C22_NoFatalExitsZero ==
    (pc = "done" /\ fatal = "none" /\ Did("full_suite")) => exitCode = 0

\* the keys the configuration file is said to require, as stated
StatedRequired(cfg) ==
    {"test_interface", "ip_address", "netmask", "gateway", "mgmt_interface",
     "nsb_subnet", "sensor_subnet", "client_subnet"}
    \cup (IF cfg.run_dhcp THEN {"dhcp_servers"} ELSE {})
    \cup (IF cfg.run_radius
          THEN {"radius_servers", "radius_secret", "radius_username",
                "radius_password"}
          ELSE {})

\* the process ends with status 1, no snapshot taken, the host untouched
ExitsUntouched ==
    /\ pc' = "done"
    /\ exitCode' = 1
    /\ state' = NoState
    /\ host' = host
    /\ trace' = <<>>

\* C23, as stated: a configuration file that omits the test interface, the
\* IP address, the netmask, the gateway, the management interface, a subnet,
\* the server list of an enabled DHCP test or a RADIUS field of an enabled
\* RADIUS test ends the process with a non-zero status before the snapshot
\* and before any change of the host.
C23_MissingFieldExits ==
    [][(pc = "input" /\ config.missing \cap StatedRequired(config) # {})
          => ExitsUntouched]_vars

\* C23, amended: the same for every key listed except test_interface and
\* mgmt_interface; a file that omits only those two (or the fields of a
\* disabled test) is accepted with the built-in interface names and the run
\* goes on to the snapshot.
C23_MissingFieldExitsUnlessDefaulted ==
    [][pc = "input" =>
          IF config.missing
                \cap (StatedRequired(config) \ {"test_interface", "mgmt_interface"})
                # {}
          THEN ExitsUntouched
          ELSE pc' = "record" /\ exitCode' = -1 /\ host' = host]_vars

C23_Witness ==
    /\ pc = "done"
    /\ exitCode = 1
    /\ state = NoState
    /\ config.missing = {"radius_secret"}
    /\ config.run_radius

\* the operations of the try block, in the order of main's statements
TryOps ==
    <<"restore_state", "configure_interface", "add_loopbacks",
      "configure_static_route",
      "restore_state", "configure_interface", "add_loopbacks",
      "configure_static_route",
      "sniff_ospf_hello", "configure_ospf", "show_ospf_status",
      "run_tests", "full_suite">>

\* the try block without its two restore_state calls
StatedOps ==
    <<"configure_interface", "add_loopbacks", "configure_static_route",
      "configure_interface", "add_loopbacks", "configure_static_route",
      "sniff_ospf_hello", "configure_ospf", "show_ospf_status",
      "run_tests", "full_suite">>

FinallyOps == <<"restore_state", "print_test_summary">>

\* record_state, then a prefix of body, then a prefix of the finally block
\* once main has entered it
InOrder(body) ==
    \E k \in 0..Len(body), e \in 0..Len(FinallyOps) :
        /\ trace = <<"record_state">> \o SubSeq(body, 1, k) \o SubSeq(FinallyOps, 1, e)
        /\ e > 0 <=> finalCalls = 1

\* C24, as stated: after the snapshot the phases run in the order Configure,
\* Provision, Route, twice, AwaitHello, ConfigureRouting, AwaitAdjacency,
\* RunProbes, Restore, Report; Restore is entered once, after the phases
\* that ran, and nothing but a jump to Restore cuts the order short.
C24_LinearPhases ==
    trace # <<>> => InOrder(StatedOps)

\* C24, amended: the operations run in the order record_state, then
\* (restore_state, configure_interface, add_loopbacks,
\* configure_static_route) twice, sniff_ospf_hello, configure_ospf,
\* show_ospf_status, run_tests, then the finally block's restore_state and
\* print_test_summary; none is re-entered out of that order. The order is
\* cut short only by an exception (a fatal condition's sys.exit or a failed
\* command), which jumps to the finally block's restore_state, or by
\* run_tests returning early; print_test_summary runs exactly when
\* test_results exists and the final restore_state did not raise.
C24_OrderWithResets ==
    /\ trace # <<>> => InOrder(TryOps)
    /\ (finalCalls = 1 /\ ~Did("run_tests")) => exc # "none"
    /\ pc = "done" /\ Snapshotted =>
          (Did("print_test_summary") <=> (defined /\ rlast # "raised"))

C24_Witness ==
    /\ pc = "done"
    /\ trace = <<"record_state">> \o TryOps \o FinallyOps

\* the number of leading one-bits of a netmask
LeadingOnes(mask) ==
    LET b == Bits(mask)
    IN  Cardinality({i \in 1..32 : \A j \in 1..i : b[j] = 1})

\* the one-bits of the netmask are all to the left of its zero-bits
Contiguous(mask) ==
    LET b == Bits(mask)
    IN  \A i \in 1..32, j \in 1..32 : (i < j /\ b[j] = 1) => b[i] = 1

\* C25: once configure_interface has computed the prefix of a contiguous
\* netmask (which it does without raising), the prefix length is the number
\* of leading one-bits of the netmask: 24 for 255.255.255.0, 25 for
\* 255.255.255.128.
C25_PrefixIsLeadingOnes ==
    /\ (pc # "cfg1" /\ Contiguous(netmask)) => prefix = LeadingOnes(netmask)
    /\ (pc # "cfg1" /\ netmask = <<255, 255, 255, 0>>) => prefix = 24
    /\ (pc # "cfg1" /\ netmask = <<255, 255, 255, 128>>) => prefix = 25

C25_Witness ==
    /\ pc = "loop1"
    /\ netmask = <<255, 255, 255, 128>>
    /\ prefix = 25

\* the value of an address below 128.0.0.0
AddrValue(a) == ((a[1] * 256 + a[2]) * 256 + a[3]) * 256 + a[4]

\* C26: every address add_loopbacks assigns to a dummy interface is the
\* network address of that interface's subnet plus one, at the subnet's own
\* prefix length; 10.1.2.0/24 gives 10.1.2.1/24.
C26_LoopbackIsNetworkPlusOne ==
    /\ \A i \in 1..Len(lo_cmds) :
          /\ lo_cmds[i].iface = DummySeq[i]
          /\ AddrValue(lo_cmds[i].addr) = AddrValue(subnets[lo_cmds[i].iface].addr) + 1
          /\ lo_cmds[i].prefix = subnets[lo_cmds[i].iface].len
    /\ (lo_cmds # <<>> /\ subnets["mgmt1"] = [addr |-> <<10, 1, 2, 0>>, len |-> 24])
          => (lo_cmds[1].addr = <<10, 1, 2, 1>> /\ lo_cmds[1].prefix = 24)

C26_Witness ==
    /\ pc = "route1"
    /\ Len(lo_cmds) = 3
    /\ subnets["mgmt1"] = [addr |-> <<10, 1, 2, 0>>, len |-> 24]
    /\ lo_cmds[1] = [iface |-> "mgmt1", addr |-> <<10, 1, 2, 1>>, prefix |-> 24]
    /\ lo_cmds[2].addr = <<10, 1, 3, 0>>
    /\ lo_cmds[3].addr = <<10, 1, 2, 129>>

\* the test interface is link-up and carries the test address
Configured(h) == h.up /\ TestAddr \in h.addrs

\* C27, as stated: the configure_interface call whose result main keeps
\* returns true exactly when the interface is link-up and carries the test
\* address at the moment of the return.
C27_TrueIffConfigured ==
    [][(pc = "cfg2" /\ pc' = "loop2") =>
          (interface_up' = "true" <=> Configured(host'))]_vars

\* the labels of the outcomes of the route, the adjacency and the probes
OtherLabels ==
    {StaticRouteLabel, "OSPF Adjacency Test", "Initial Ping",
     "Initial Ping Custom DNS", "Initial DNS", "Custom DNS", RelayLabel}
    \cup Range(SuiteProbes)

\* C28, as stated: when configure_interface has returned false the outcome
\* sequence, once it exists, holds a failed outcome for the interface
\* configuration.
C28_FailureRecorded ==
    (interface_up = "false" /\ defined) =>
        \E i \in 1..Len(test_results) :
            test_results[i][1] \notin OtherLabels /\ ~test_results[i][3]

\* a default route via the gateway is in the route table
RoutePresent(h) == "gw" \in h.routes

\* C29: when the second configure_static_route ends with the default route
\* via the gateway absent and none of its commands raised, it has returned
\* false: main creates the outcome sequence with ("Static Default Route
\* Configuration", false) and goes on to sniff_ospf_hello.
C29_RouteFailureRecorded ==
    [][(pc = "route2" /\ ~RoutePresent(host') /\ faults' = faults) =>
          /\ exc' = "none"
          /\ pc' = "hello"
          /\ defined'
          /\ test_results' = <<Outcome(StaticRouteLabel, "", FALSE)>>]_vars

C29_Witness ==
    /\ pc = "hello"
    /\ exc = "none"
    /\ ~RoutePresent(host)
    /\ test_results = <<Outcome(StaticRouteLabel, "", FALSE)>>

\* C30, as stated: the configure_static_route call whose result main
\* records returns true exactly when a default route via the gateway is
\* present at the moment of the return.
C30_TrueIffRoutePresent ==
    [][(pc = "route2" /\ pc' = "hello") =>
          (test_results'[1][3] <=> RoutePresent(host'))]_vars

\* the position of the first report of the script with a Full/DR neighbor
\* line, 0 when there is none
FirstMatch(script) ==
    IF \A i \in 1..Len(script) : ~ReportMatches(script[i]) THEN 0
    ELSE CHOOSE i \in 1..Len(script) :
            /\ ReportMatches(script[i])
            /\ \A j \in 1..(i - 1) : ~ReportMatches(script[j])

\* C31: show_ospf_status queries the neighbor state at most 30 times; when
\* one of the first 30 reports has a Full/DR neighbor line it stops at the
\* first such report and returns true, else it returns false after 30
\* queries; main appends the "OSPF Adjacency Test" outcome with that result
\* and goes on to run_tests either way.
C31_AdjacencyPolling ==
    [][pc = "adj" =>
          /\ attempt' <= AdjMaxPolls
          /\ pc' = "tests"
          /\ exc' = "none"
          /\ IF FirstMatch(ospf_script) \in 1..AdjMaxPolls
             THEN /\ attempt' = FirstMatch(ospf_script)
                  /\ test_results' = Append(test_results, <<AdjacencyLabel, "", TRUE>>)
             ELSE /\ attempt' = AdjMaxPolls
                  /\ test_results' = Append(test_results, <<AdjacencyLabel, "", FALSE>>)
      ]_vars

C31_Witness ==
    /\ pc = "tests"
    /\ FirstMatch(ospf_script) = AdjMaxPolls + 1
    /\ attempt = AdjMaxPolls
    /\ test_results[Len(test_results)] = <<AdjacencyLabel, "", FALSE>>

\* C32: configure_interface never issues a link down for lo, for the
\* management interface or for a dummy_* interface, neither in the first
\* disabling pass nor in a verification pass, and it deletes the management
\* interface's default route only when the management interface is not the
\* test interface.
C32_SparedInterfaces ==
    /\ if_cmds.down \cap ({"lo", ifaces.mgmt} \cup DummyIfaces) = {}
    /\ if_cmds.route_del => ifaces.mgmt # ifaces.iface

C32_Witness ==
    /\ pc = "loop1"
    /\ ifaces.mgmt = "end0"
    /\ ifaces.still_up[3] = {"lo", "end0", "eth-test", "eth-other", "dummy_mgmt1"}
    /\ host.dummies # {}
    /\ if_cmds = [down |-> {"eth-test", "eth-other"}, route_del |-> TRUE]

(***************************************************************************)
(* C33: in add_loopbacks a failure of the 'add interface' or the 'add      *)
(* address' step does not abort: the next step of the same interface is    *)
(* issued after it. A failure of 'bring up' is the last step of the call,  *)
(* raises, and sends the run to the finally block; a call that did not     *)
(* raise issued all three steps for all three interfaces.                  *)
(***************************************************************************)
NextLoopbackStep(step) == IF step = "add" THEN "addr" ELSE "up"

C33_OnlyBringUpAborts ==
    [][(pc = "loop1" \/ pc = "loop2") =>
        /\ \A i \in 1..Len(lo_steps') :
              LET st == lo_steps'[i]
              IN  /\ (st.step \in {"add", "addr"} /\ ~st.ok) =>
                        /\ i < Len(lo_steps')
                        /\ lo_steps'[i + 1].iface = st.iface
                        /\ lo_steps'[i + 1].step = NextLoopbackStep(st.step)
                  /\ (st.step = "up" /\ ~st.ok) =>
                        /\ i = Len(lo_steps')
                        /\ exc' = "error"
                        /\ pc' = "final"
        /\ exc' = "none" =>
              /\ Len(lo_steps') = Len(DummySeq) * Len(LoopbackSteps)
              /\ pc' \in {"route1", "route2"}
      ]_vars

C33_Witness ==
    /\ pc = "route1"
    /\ exc = "none"
    /\ Len(lo_steps) = 9
    /\ lo_steps[1] = [iface |-> "mgmt1", step |-> "add", ok |-> FALSE]
    /\ lo_steps[2] = [iface |-> "mgmt1", step |-> "addr", ok |-> FALSE]
    /\ lo_steps[3] = [iface |-> "mgmt1", step |-> "up", ok |-> TRUE]
    /\ lo_steps[9] = [iface |-> "client", step |-> "up", ok |-> TRUE]

\* a failed bring up after the other two steps: the run is in the finally block
C33_WitnessAbort ==
    /\ pc = "final"
    /\ exc = "error"
    /\ Len(lo_steps) = 6
    /\ lo_steps[4] = [iface |-> "mgmt2", step |-> "add", ok |-> TRUE]
    /\ lo_steps[6] = [iface |-> "mgmt2", step |-> "up", ok |-> FALSE]

(***************************************************************************)
(* C34, as stated: the outcome of a lease server is a success only if the  *)
(* lease request to that server returned a lease or a capture thread       *)
(* started in that server's probe observed an offer; an offer observed by  *)
(* a thread left over from an earlier server never makes it a success.     *)
(***************************************************************************)
C34_OwnCaptureDecides ==
    \A s \in Servers :
        (s <= Len(test_results) /\ test_results[s][3]) =>
            Op(s, "lease") \/ Op(s, "offer1") \/ Op(s, "offer2")

(***************************************************************************)
(* C35, as stated: between the snapshot and the final restore the run      *)
(* suspends only at process executions, sleeps and time-bounded captures:  *)
(* it never waits for operator input.                                      *)
(***************************************************************************)
C35_NeverWaitsForOperator ==
    pc # "prompt"

(***************************************************************************)
(* C36, as stated: every interface configure_interface brought down (other *)
(* than the loopback, the management interface and the synthetic ones)     *)
(* that was up when the run started is up again after the final restore.   *)
(* Stated for the runs in which no command failed.                         *)
(***************************************************************************)
IsUp(h, i) ==
    IF i = ifaces.iface THEN h.up ELSE IF i = "eth-other" THEN h.otherUp ELSE TRUE

C36_DownedInterfacesUpAgain ==
    (AfterFinal /\ finalCalls = 1 /\ faults = 0 /\ "not fixed" \notin ifaces.up0) =>
        \A i \in (if_cmds.down \cap ifaces.up0)
                    \ ({"lo", ifaces.mgmt} \cup DummyIfaces) : IsUp(host, i)

(***************************************************************************)
(* C37, as stated: the summary is printed only after the final             *)
(* restore_state call has returned; a run aborted by a fatal condition     *)
(* after test_results was created still prints the summary, over every     *)
(* outcome recorded before the abort; with no counted outcome the summary  *)
(* shows 0/0 and a rate of 0.                                              *)
(***************************************************************************)
\* the summary comes after the returned final restore and counts what
\* test_results holds
SummaryOrdered ==
    printed # <<>> =>
        /\ finalCalls = 1
        /\ rlast # "raised"
        /\ trace[Len(trace)] = "print_test_summary"
        /\ trace[Len(trace) - 1] = "restore_state"
        /\ printed[1] = Cardinality(CountedPassed(test_results))
        /\ printed[2] = Cardinality(Counted(test_results))
        /\ printed[2] = 0 => printed = <<0, 0, 0>>

\* an aborted run that had created test_results ends with a summary
AbortSummarised ==
    (pc = "done" /\ fatal # "none" /\ defined) => printed # <<>>

C37_SummaryAfterRestore ==
    SummaryOrdered /\ AbortSummarised

(***************************************************************************)
(* C38, as stated: when none of the 5 connectivity attempts from the mgmt1 *)
(* dummy address succeeds, run_tests returns the outcomes recorded so far  *)
(* and runs no further probe; the run goes on to the restore and the       *)
(* summary and ends with exit status 0, not as a fatal abort.              *)
(***************************************************************************)
ConnectivityFailed ==
    /\ Did("run_tests")
    /\ ~Did("full_suite")
    /\ attempt = SuiteMaxRetries
    /\ pc \in {"final", "summary", "exit", "done"}

\* the early return: no probe outcome, no fatal condition, the finally block
EarlyReturn ==
    ConnectivityFailed =>
        /\ \A i \in 1..Len(test_results) :
              test_results[i][1] \notin Range(SuiteProbes)
        /\ fatal = "none"
        /\ pc = "final" => exc = "none"
        /\ pc = "done" => finalCalls = 1

\* restore and report, exit status 0
EarlyReturnExitsZero ==
    (ConnectivityFailed /\ pc = "done") => (printed # <<>> /\ exitCode = 0)

C38_ConnectivityFailureNotFatal ==
    EarlyReturn /\ EarlyReturnExitsZero

(***************************************************************************)
(* C39: test_results is append-only for the whole run: every step leaves   *)
(* the outcomes recorded before it unchanged and in order. The outcome     *)
(* labelled "Static Default Route Configuration" is recorded once, after   *)
(* the second configure_static_route call only, and is the first entry;    *)
(* the adjacency outcome precedes every outcome of run_tests.              *)
(***************************************************************************)
Calls(op) == Cardinality({i \in 1..Len(trace) : trace[i] = op})

RunTestsLabels == OtherLabels \ {StaticRouteLabel, AdjacencyLabel}

OutcomesOrdered ==
    /\ ~defined => test_results = <<>>
    /\ defined =>
          /\ Calls("configure_static_route") = 2
          /\ Len(test_results) >= 1
          /\ test_results[1][1] = StaticRouteLabel
          /\ \A i \in 2..Len(test_results) : test_results[i][1] # StaticRouteLabel
    /\ \A i \in 1..Len(test_results) :
          test_results[i][1] \in RunTestsLabels =>
              \E j \in 1..(i - 1) : test_results[j][1] = AdjacencyLabel

C39_AppendOnly ==
    /\ []OutcomesOrdered
    /\ [][/\ Len(test_results') >= Len(test_results)
          /\ SubSeq(test_results', 1, Len(test_results)) = test_results]_vars

C39_Witness ==
    /\ pc = "done"
    /\ Did("full_suite")
    /\ test_results[1] = <<StaticRouteLabel, "", FALSE>>
    /\ test_results[2] = <<AdjacencyLabel, "", TRUE>>
    /\ test_results[3][1] = "Initial Ping"
    /\ test_results[Len(test_results)][1] = SuiteProbes[Len(SuiteProbes)]
====
